---- MODULE Spec2Model ----
(***************************************************************************)
(* Model of loki's multi-agent supervision core: the TaskQueue             *)
(* (supervisor/taskqueue.rs), the Supervisor handle registry               *)
(* (supervisor/mod.rs) and the per-agent Inbox (supervisor/mailbox.rs),     *)
(* the agent tools (function/supervisor.rs), the escalation queue          *)
(* (supervisor/escalation.rs) and the stream handlers (client/stream.rs).  *)
(***************************************************************************)
EXTENDS Integers, Sequences, FiniteSets, TLC

VARIABLES
    tasks,      \* TaskQueue.tasks: id -> TaskNode (status, owner, blocked_by, blocks)
    next_id,    \* TaskQueue.next_id
    call,       \* the last TaskQueue method called, its arguments and its return value
    claimed,    \* per task id, how many times claim() returned true for it
    ncalls,     \* number of TaskQueue methods called so far
    handles,        \* Supervisor.handles: agent id -> AgentHandle
    max_concurrent, \* Supervisor.max_concurrent
    max_depth,      \* Supervisor.max_depth
    sup_call,       \* the last step on the Supervisor: the method called (or the end of a
                    \* child task), its arguments and its result
    messages,   \* Inbox.messages, the Vec behind the mutex
    delivered,  \* number of deliver() calls that have returned
    pc,         \* per draining thread, where it is in drain()
    msgs,       \* per draining thread, the local Vec of drain()
    result,     \* what the last drain() to return has returned
    returned,   \* per envelope number, in how many drain() results it has been
    current_depth,  \* Config.current_depth of the agent whose tool calls are evaluated
    next_agent,     \* the next fresh agent id (agent_<name>_<uuid>)
    children,       \* per agent id, the task tokio::spawn started for it: its state, its
                    \* abort signal and the exit_status of its AgentResult
    agent_pc,       \* where the tool handler being evaluated is suspended, if any
    tool,           \* the tool call being evaluated or last evaluated, and its result
    pending,    \* EscalationQueue.pending: escalation id -> EscalationRequest
    esc_next,   \* the next fresh escalation id (esc_<uuid>)
    esc_child,  \* per child agent, where it is in handle_escalated, how long it has
                \* waited and what its last user__ call returned
    reply_chan, \* per escalation id, the state of its oneshot reply channel
    esc_held,       \* ids of the requests taken from the queue and still owned by the taker
    taken,      \* per escalation id, how many take() calls have returned it
    esc_call,   \* the last step on the escalation queue or a child's call
    tool_calls,      \* SseHandler.tool_calls: the calls accepted for dispatch
    last_tool_calls, \* SseHandler.last_tool_calls: the history the loop check reads
    fed,             \* every call handed to tool_call so far, in order
    verdicts,        \* for each of them, the Result of tool_call: "Ok" or "Err"
    message,         \* the loop message of the last tool_call, if it was rejected
    js_input,        \* the stream json_stream reads: its format and its objects
    js_bytes,        \* the bytes of that stream
    js_pos,          \* how many bytes of it the chunks so far have delivered
    unparsed_bytes,  \* json_stream's unparsed_bytes
    parser,          \* json_stream's JsonStreamParser
    emitted,         \* the values the callback has been called with, in order
    js_done,         \* json_stream has returned
    js_cuts,         \* the kinds of places at which chunks have ended so far
    todos,      \* TodoList.todos
    todo_call,  \* the last TodoList method called, its argument and its return value
    dispatch,   \* per task, TaskNode.dispatch_agent and TaskNode.prompt
    tc,         \* per caller, where its handle_task_complete stands and its locals
    tt_call,    \* the last response of a task tool
    attempts,   \* per task, how many times handle_spawn was called for it
    tt_n,       \* calls of the task tools so far
    sm_agent,     \* whether the config of the collecting task holds an agent
    sm_threshold, \* that agent's summarization_threshold
    sm_output,    \* the output summarize_output is called with
    sm_result,    \* what the last call of summarize_output returned
    lk_pc,      \* per task, the handler path it follows and its place in it
    lk_held,    \* per task, the lock guards it holds
    lk_child,   \* whether the child a collect waits for has ended
    rc_pc,              \* run_child_agent: "loop", "done" (Ok) or "failed" (Err)
    accumulated_output, \* its accumulated_output, a sequence of characters
    rc_turns,           \* per turn it has had, the output and the number of tool results
    rc_result,          \* the AgentResult the spawned task builds at its end
    parent_handles, \* the ids registered in the sender's parent_supervisor
    inboxes         \* per agent id, the envelopes in the inbox made for it

tq_vars == <<tasks, next_id, call, claimed, ncalls>>
sup_vars == <<handles, max_concurrent, max_depth, sup_call>>
inbox_vars == <<messages, delivered, pc, msgs, result, returned>>
agent_vars == <<current_depth, next_agent, children, agent_pc, tool>>
esc_vars == <<pending, esc_next, esc_child, reply_chan, esc_held, taken, esc_call>>
sse_vars == <<tool_calls, last_tool_calls, fed, verdicts, message>>
js_vars == <<js_input, js_bytes, js_pos, unparsed_bytes, parser, emitted, js_done, js_cuts>>
todo_vars == <<todos, todo_call>>
tt_vars == <<dispatch, tc, tt_call, attempts, tt_n>>
sm_vars == <<sm_agent, sm_threshold, sm_output, sm_result>>
lk_vars == <<lk_pc, lk_held, lk_child>>
rc_vars == <<rc_pc, accumulated_output, rc_turns, rc_result>>
msg_vars == <<parent_handles, inboxes>>
vars == <<tq_vars, sup_vars, inbox_vars, agent_vars, esc_vars, sse_vars, js_vars,
          todo_vars, tt_vars, sm_vars, lk_vars, rc_vars, msg_vars>>

\* what the steps of one component leave alone
tq_rest == <<sup_vars, inbox_vars, agent_vars, esc_vars, sse_vars, js_vars, todo_vars, tt_vars, sm_vars, lk_vars, rc_vars, msg_vars>>
sup_rest == <<max_concurrent, max_depth, tq_vars, inbox_vars, agent_vars, esc_vars, sse_vars, js_vars, todo_vars, tt_vars, sm_vars, lk_vars, rc_vars, msg_vars>>
inbox_rest == <<tq_vars, sup_vars, agent_vars, esc_vars, sse_vars, js_vars, todo_vars, tt_vars, sm_vars, lk_vars, rc_vars, msg_vars>>
agent_rest == <<max_concurrent, max_depth, sup_call, tq_vars, inbox_vars, esc_vars, sse_vars, js_vars, todo_vars, tt_vars, sm_vars, lk_vars, rc_vars, msg_vars>>
esc_rest == <<tq_vars, sup_vars, inbox_vars, agent_vars, sse_vars, js_vars, todo_vars, tt_vars, sm_vars, lk_vars, rc_vars, msg_vars>>
sse_rest == <<tq_vars, sup_vars, inbox_vars, agent_vars, esc_vars, js_vars, todo_vars, tt_vars, sm_vars, lk_vars, rc_vars, msg_vars>>
js_rest == <<tq_vars, sup_vars, inbox_vars, agent_vars, esc_vars, sse_vars, todo_vars, tt_vars, sm_vars, lk_vars, rc_vars, msg_vars>>
todo_rest == <<tq_vars, sup_vars, inbox_vars, agent_vars, esc_vars, sse_vars, js_vars, tt_vars, sm_vars, lk_vars, rc_vars, msg_vars>>
tt_rest == <<sup_vars, inbox_vars, agent_vars, esc_vars, sse_vars, js_vars, todo_vars, sm_vars, lk_vars, rc_vars, msg_vars>>
sm_rest == <<tq_vars, sup_vars, inbox_vars, agent_vars, esc_vars, sse_vars, js_vars, todo_vars, tt_vars, lk_vars, rc_vars, msg_vars>>
lk_rest == <<tq_vars, sup_vars, inbox_vars, agent_vars, esc_vars, sse_vars, js_vars, todo_vars, tt_vars, sm_vars, rc_vars, msg_vars>>
tt_rest_agent ==
    <<max_concurrent, max_depth, sup_call, current_depth, children, agent_pc, tool,
      inbox_vars, esc_vars, sse_vars, js_vars, todo_vars, sm_vars, lk_vars, rc_vars, msg_vars>>

rc_rest == <<tq_vars, sup_vars, inbox_vars, agent_vars, esc_vars, sse_vars, js_vars, todo_vars, tt_vars, sm_vars, lk_vars, msg_vars>>

(***************************************************************************)
(* Bounds                                                                  *)
(***************************************************************************)
\* ids the queue may hand out (create is disabled afterwards)
MaxTasks == 3
\* length of the sequences of TaskQueue calls explored
MaxCalls == 7
\* agent ids that may be registered
MaxAgents == 3
\* largest max_concurrent / max_depth a Supervisor is constructed with
MaxConcurrent == 2
MaxDepth == 1
\* envelopes delivered to the inbox, and threads draining it
MaxDeliver == 3
NumDrainers == 2
\* tool calls evaluated by the agent
MaxToolCalls == 3
\* escalation ids handed out, and child agents that escalate
MaxEscalations == 2
NumEscChildren == 2
\* seconds that pass in one step of the clock
TickSecs == 300
\* tool calls handed to one SseHandler
MaxFeed == 8
\* top-level objects in one JSON stream
MaxStreamObjects == 2
\* items added to one TodoList
MaxTodos == 4
\* calls of agent__task_create and agent__task_complete
MaxTaskCalls == 5
\* chars of a child's output, and the summarization_threshold of an agent
MaxOutputLen == 3
MaxThreshold == 4

\* config/agent.rs defaults
default_max_concurrent_agents == 4
default_max_agent_depth == 3

\* function/user_interaction.rs, in seconds
ESCALATION_TIMEOUT == 300

\* client/stream.rs, SseHandler::new
default_summarization_threshold == 4000
max_call_repeats == 2
call_repeat_chain_len == 3

TaskIds == 1..MaxTasks

\* owners passed to claim(): the two workers of test_claim
Owners == {"worker-1", "worker-2"}

None == "None"

(***************************************************************************)
(* Helpers                                                                 *)
(***************************************************************************)
\* All sequences that list the elements of S once each (iteration orders of a HashSet)
Orders(S) ==
    {o \in [1..Cardinality(S) -> S] : \A i, j \in 1..Cardinality(S) : i # j => o[i] # o[j]}

Range(s) == {s[i] : i \in DOMAIN s}

(***************************************************************************)
(* TaskNode / TaskQueue                                                    *)
(***************************************************************************)
TaskStatus == {"Pending", "Blocked", "InProgress", "Completed", "Failed"}

\* TaskNode::new
TaskNode_new ==
    [status |-> "Pending", owner |-> None, blocked_by |-> {}, blocks |-> {}]

\* TaskNode::is_runnable
is_runnable(t) == t.status = "Pending" /\ t.blocked_by = {}

\* would_create_cycle that looks only at the blocker's direct dependencies
would_create_cycle_direct(q, task_id, blocked_by) ==
    \/ blocked_by = task_id
    \/ blocked_by \in DOMAIN q /\ task_id \in q[blocked_by].blocked_by

\* The DFS loop of would_create_cycle: stack is the Vec used as a stack (top at
\* the end), visited the HashSet.
RECURSIVE cycle_search(_, _, _, _)
cycle_search(q, task_id, stack, visited) ==
    IF stack = <<>> THEN FALSE
    ELSE LET current == stack[Len(stack)]
             rest    == SubSeq(stack, 1, Len(stack) - 1)
         IN  IF current = task_id THEN TRUE
             ELSE IF current \notin visited
                  THEN LET deps == IF current \in DOMAIN q
                                   THEN q[current].blocked_by ELSE {}
                           push == CHOOSE o \in Orders(deps) : TRUE
                       IN  cycle_search(q, task_id, rest \o push,
                                        visited \cup {current})
                  ELSE cycle_search(q, task_id, rest, visited)

\* TaskQueue::would_create_cycle
would_create_cycle(q, task_id, blocked_by) ==
    cycle_search(q, task_id, <<blocked_by>>, {})

\* add_dependency that links the blocker's side before it checks for a cycle
add_dependency_early_link(q, task_id, blocked_by) ==
    IF task_id = blocked_by THEN [q |-> q, ret |-> "ErrSelf"]
    ELSE IF blocked_by \notin DOMAIN q THEN [q |-> q, ret |-> "ErrUnknownDep"]
    ELSE IF task_id \notin DOMAIN q THEN [q |-> q, ret |-> "ErrUnknownTask"]
    ELSE LET q0 == [q EXCEPT ![blocked_by].blocks = @ \cup {task_id}]
         IN  IF would_create_cycle(q, task_id, blocked_by)
             THEN [q |-> q0, ret |-> "ErrCycle"]
             ELSE [q |-> [q0 EXCEPT ![task_id].blocked_by = @ \cup {blocked_by},
                                    ![task_id].status = "Blocked"],
                   ret |-> "Ok"]

\* add_dependency that refuses a dependency the task already has
add_dependency_rejects_duplicate(q, task_id, blocked_by) ==
    IF task_id = blocked_by THEN [q |-> q, ret |-> "ErrSelf"]
    ELSE IF blocked_by \notin DOMAIN q THEN [q |-> q, ret |-> "ErrUnknownDep"]
    ELSE IF task_id \notin DOMAIN q THEN [q |-> q, ret |-> "ErrUnknownTask"]
    ELSE IF would_create_cycle(q, task_id, blocked_by)
         THEN [q |-> q, ret |-> "ErrCycle"]
    ELSE IF blocked_by \in q[task_id].blocked_by
         THEN [q |-> q, ret |-> "ErrDuplicate"]
    ELSE LET q1 == [q EXCEPT ![task_id].blocked_by = @ \cup {blocked_by},
                             ![task_id].status = "Blocked"]
         IN  [q |-> [q1 EXCEPT ![blocked_by].blocks = @ \cup {task_id}],
              ret |-> "Ok"]

\* TaskQueue::add_dependency: the queue after the call and the Result
add_dependency(q, task_id, blocked_by) ==
    IF task_id = blocked_by THEN [q |-> q, ret |-> "ErrSelf"]
    ELSE IF blocked_by \notin DOMAIN q THEN [q |-> q, ret |-> "ErrUnknownDep"]
    ELSE IF task_id \notin DOMAIN q THEN [q |-> q, ret |-> "ErrUnknownTask"]
    ELSE IF would_create_cycle(q, task_id, blocked_by)
         THEN [q |-> q, ret |-> "ErrCycle"]
    ELSE LET q1 == [q EXCEPT ![task_id].blocked_by = @ \cup {blocked_by},
                             ![task_id].status = "Blocked"]
         IN  [q |-> [q1 EXCEPT ![blocked_by].blocks = @ \cup {task_id}],
              ret |-> "Ok"]

\* complete's test of a dependent without the is_empty() condition
unblocks_any_blocked(dep) == dep.status = "Blocked"

\* complete, line 108: the dependent (blocker already removed) becomes Pending
unblocks(dep) == dep.blocked_by = {} /\ dep.status = "Blocked"

\* TaskQueue::complete: order is the iteration order of task.blocks; the
\* result is the queue after the call and the newly_runnable Vec
complete(q, task_id, order) ==
    LET q0 == IF task_id \in DOMAIN q
              THEN [q EXCEPT ![task_id].status = "Completed"] ELSE q
        removed(d) == [q0[d] EXCEPT !.blocked_by = @ \ {task_id}]
        deps == Range(order) \cap DOMAIN q0
        q1 == [d \in DOMAIN q0 |->
                 IF d \in deps
                 THEN IF unblocks(removed(d))
                      THEN [removed(d) EXCEPT !.status = "Pending"]
                      ELSE removed(d)
                 ELSE q0[d]]
    IN  [q |-> q1,
         ret |-> SelectSeq(order, LAMBDA d : d \in deps /\ unblocks(removed(d)))]

\* fail that also fails the tasks waiting for the failed one
fail_propagates(q, task_id) ==
    IF task_id \in DOMAIN q
    THEN [d \in DOMAIN q |->
             IF d = task_id \/ task_id \in q[d].blocked_by
             THEN [q[d] EXCEPT !.status = "Failed"] ELSE q[d]]
    ELSE q

\* TaskQueue::fail
fail(q, task_id) ==
    IF task_id \in DOMAIN q THEN [q EXCEPT ![task_id].status = "Failed"] ELSE q

\* claim's guard without the owner check
can_claim_any_owner(t) == is_runnable(t)

\* claim, line 126
can_claim(t) == is_runnable(t) /\ t.owner = None

\* TaskQueue::claim
claim(q, task_id, owner) ==
    IF task_id \in DOMAIN q /\ can_claim(q[task_id])
    THEN [q |-> [q EXCEPT ![task_id].owner = owner,
                          ![task_id].status = "InProgress"],
          ret |-> TRUE]
    ELSE [q |-> q, ret |-> FALSE]

(***************************************************************************)
(* TaskQueue operations                                                    *)
(***************************************************************************)
\* TaskQueue::new
InitTaskQueue ==
    /\ tasks = <<>>
    /\ next_id = 1
    /\ call = [op |-> "new", task_id |-> 0, arg |-> None, ret |-> None]
    /\ claimed = [t \in TaskIds |-> 0]
    /\ ncalls = 0

\* one more method call on the queue
Called ==
    /\ ncalls < MaxCalls
    /\ ncalls' = ncalls + 1
    /\ UNCHANGED tq_rest

Create ==
    /\ Called
    /\ next_id <= MaxTasks
    /\ tasks' = tasks @@ (next_id :> TaskNode_new)
    /\ next_id' = next_id + 1
    /\ call' = [op |-> "create", task_id |-> next_id, arg |-> None, ret |-> next_id]
    /\ UNCHANGED claimed

AddDependency ==
    /\ Called
    /\ \E task_id \in TaskIds, blocked_by \in TaskIds :
           LET r == add_dependency(tasks, task_id, blocked_by)
           IN  /\ tasks' = r.q
               /\ call' = [op |-> "add_dependency", task_id |-> task_id,
                           arg |-> blocked_by, ret |-> r.ret]
               /\ UNCHANGED <<next_id, claimed>>

Complete ==
    /\ Called
    /\ \E task_id \in TaskIds :
           \E order \in Orders(IF task_id \in DOMAIN tasks
                               THEN tasks[task_id].blocks ELSE {}) :
               LET r == complete(tasks, task_id, order)
               IN  /\ tasks' = r.q
                   /\ call' = [op |-> "complete", task_id |-> task_id,
                               arg |-> None, ret |-> r.ret]
                   /\ UNCHANGED <<next_id, claimed>>

Fail ==
    /\ Called
    /\ \E task_id \in TaskIds :
           /\ tasks' = fail(tasks, task_id)
           /\ call' = [op |-> "fail", task_id |-> task_id, arg |-> None, ret |-> None]
           /\ UNCHANGED <<next_id, claimed>>

Claim ==
    /\ Called
    /\ \E task_id \in TaskIds, owner \in Owners :
           LET r == claim(tasks, task_id, owner)
           IN  /\ tasks' = r.q
               /\ call' = [op |-> "claim", task_id |-> task_id,
                           arg |-> owner, ret |-> r.ret]
               /\ claimed' = IF r.ret THEN [claimed EXCEPT ![task_id] = @ + 1]
                             ELSE claimed
               /\ UNCHANGED next_id

NextTaskQueue == Create \/ AddDependency \/ Complete \/ Fail \/ Claim

(***************************************************************************)
(* Supervisor                                                              *)
(***************************************************************************)
AgentIds == 1..MaxAgents

\* register whose capacity test is > instead of >=
register_past_capacity(hs, mc, md, id, depth) ==
    IF Cardinality(DOMAIN hs) > mc THEN [handles |-> hs, ret |-> "ErrAtCapacity"]
    ELSE IF depth > md THEN [handles |-> hs, ret |-> "ErrMaxDepth"]
    ELSE [handles |-> [i \in DOMAIN hs \cup {id} |->
                          IF i = id THEN [depth |-> depth, finished |-> FALSE]
                          ELSE hs[i]],
          ret |-> "Ok"]

\* Supervisor::register of a handle {id, depth, join_handle of a task just
\* spawned}: the handle map after the call and the Result
register(hs, mc, md, id, depth) ==
    IF Cardinality(DOMAIN hs) >= mc THEN [handles |-> hs, ret |-> "ErrAtCapacity"]
    ELSE IF depth > md THEN [handles |-> hs, ret |-> "ErrMaxDepth"]
    ELSE [handles |-> [i \in DOMAIN hs \cup {id} |->
                          IF i = id THEN [depth |-> depth, finished |-> FALSE]
                          ELSE hs[i]],
          ret |-> "Ok"]

\* HashMap::remove
remove(hs, id) == [i \in DOMAIN hs \ {id} |-> hs[i]]

\* Supervisor::new
InitSupervisor(mc, md) ==
    /\ handles = <<>>
    /\ max_concurrent = mc
    /\ max_depth = md
    /\ sup_call = [op |-> "new", id |-> 0, depth |-> 0, ret |-> None]

Register ==
    \E id \in AgentIds, depth \in 0..(MaxDepth + 1) :
        LET r == register(handles, max_concurrent, max_depth, id, depth)
        IN  /\ handles' = r.handles
            /\ sup_call' = [op |-> "register", id |-> id, depth |-> depth,
                            ret |-> r.ret]
            /\ UNCHANGED sup_rest

\* Supervisor::take
Take ==
    \E id \in AgentIds :
        /\ handles' = remove(handles, id)
        /\ sup_call' = [op |-> "take", id |-> id, depth |-> 0,
                        ret |-> IF id \in DOMAIN handles THEN "Some" ELSE None]
        /\ UNCHANGED sup_rest

\* Supervisor::take_if_finished
TakeIfFinished ==
    \E id \in AgentIds :
        LET fin == id \in DOMAIN handles /\ handles[id].finished
        IN  /\ handles' = IF fin THEN remove(handles, id) ELSE handles
            /\ sup_call' = [op |-> "take_if_finished", id |-> id, depth |-> 0,
                            ret |-> IF fin THEN "Some" ELSE None]
            /\ UNCHANGED sup_rest

\* The task behind a registered handle's join_handle runs to its end
ChildFinishes ==
    \E id \in DOMAIN handles :
        /\ ~handles[id].finished
        /\ handles' = [handles EXCEPT ![id].finished = TRUE]
        /\ sup_call' = [op |-> "child_finishes", id |-> id, depth |-> 0, ret |-> None]
        /\ UNCHANGED sup_rest

NextSupervisor == Register \/ Take \/ TakeIfFinished \/ ChildFinishes

(***************************************************************************)
(* Inbox                                                                   *)
(***************************************************************************)
\* EnvelopePayload variants
Payloads == {"Text", "TaskCompleted", "ShutdownRequest", "ShutdownApproved"}

Drainers == 1..NumDrainers

\* a sort key that puts Text with the control plane
sort_key_text_first(payload) ==
    CASE payload = "ShutdownRequest"  -> 0
      [] payload = "ShutdownApproved" -> 0
      [] payload = "TaskCompleted"    -> 1
      [] payload = "Text"             -> 0

\* the key closure of drain's sort_by_key
sort_key(payload) ==
    CASE payload = "ShutdownRequest"  -> 0
      [] payload = "ShutdownApproved" -> 0
      [] payload = "TaskCompleted"    -> 1
      [] payload = "Text"             -> 2

\* e put into the sorted sequence s behind every element whose key is not larger
insert_by_key(s, e) ==
    LET before == {i \in 0..Len(s) :
                      \A j \in 1..i : sort_key(s[j].payload) <= sort_key(e.payload)}
        k == CHOOSE i \in before : \A j \in before : j <= i
    IN  SubSeq(s, 1, k) \o <<e>> \o SubSeq(s, k + 1, Len(s))

\* slice::sort_by_key, a stable sort
RECURSIVE sort_by_key(_)
sort_by_key(s) ==
    IF s = <<>> THEN <<>>
    ELSE insert_by_key(sort_by_key(SubSeq(s, 1, Len(s) - 1)), s[Len(s)])

\* a drain that copies the buffer and leaves it in place
mem_clone(buffer) == [taken |-> buffer, left |-> buffer]

\* std::mem::take(&mut *guard)
mem_take(buffer) == [taken |-> buffer, left |-> <<>>]

\* Inbox::pending_count
pending_count(buffer) == Len(buffer)

\* How often envelope n occurs in sequence s
Occurrences(s, n) == Cardinality({i \in DOMAIN s : s[i].n = n})

\* Inbox::new
InitInbox ==
    /\ messages = <<>>
    /\ delivered = 0
    /\ pc = [th \in Drainers |-> "idle"]
    /\ msgs = [th \in Drainers |-> <<>>]
    /\ result = <<>>
    /\ returned = [n \in 1..MaxDeliver |-> 0]

\* Inbox::deliver: lock, push, unlock. n numbers the envelopes in the order
\* they are pushed.
Deliver ==
    /\ delivered < MaxDeliver
    /\ \E payload \in Payloads :
          messages' = Append(messages, [payload |-> payload, n |-> delivered + 1])
    /\ delivered' = delivered + 1
    /\ UNCHANGED <<pc, msgs, result, returned, inbox_rest>>

\* a thread calls drain() (handle_check_inbox)
DrainCall ==
    \E th \in Drainers :
        /\ pc[th] = "idle"
        /\ pc' = [pc EXCEPT ![th] = "lock"]
        /\ UNCHANGED <<messages, delivered, msgs, result, returned, inbox_rest>>

\* drain, lines 58-61: under the lock, move the buffer out
DrainTake ==
    \E th \in Drainers :
        /\ pc[th] = "lock"
        /\ msgs' = [msgs EXCEPT ![th] = mem_take(messages).taken]
        /\ messages' = mem_take(messages).left
        /\ pc' = [pc EXCEPT ![th] = "sort"]
        /\ UNCHANGED <<delivered, result, returned, inbox_rest>>

\* drain, lines 65-72: sort the local Vec and return it
DrainReturn ==
    \E th \in Drainers :
        /\ pc[th] = "sort"
        /\ result' = sort_by_key(msgs[th])
        /\ returned' = [n \in 1..MaxDeliver |->
                           returned[n] + Occurrences(sort_by_key(msgs[th]), n)]
        /\ msgs' = [msgs EXCEPT ![th] = <<>>]
        /\ pc' = [pc EXCEPT ![th] = "idle"]
        /\ UNCHANGED <<messages, delivered, inbox_rest>>

NextInbox == Deliver \/ DrainCall \/ DrainTake \/ DrainReturn

(***************************************************************************)
(* summarize_output (function/supervisor.rs)                               *)
(***************************************************************************)
\* the sequences over S of length up to n
RECURSIVE SeqsUpTo(_, _)
SeqsUpTo(S, n) ==
    IF n = 0 THEN {<<>>}
    ELSE LET shorter == SeqsUpTo(S, n - 1)
         IN  shorter \cup {Append(s, x) : s \in shorter, x \in S}

\* UTF-8: "é" is the bytes C3 A9, every other char used here is one byte
RECURSIVE as_bytes(_)
as_bytes(text) ==
    IF text = <<>> THEN <<>>
    ELSE (IF Head(text) = "é" THEN <<"C3", "A9">> ELSE <<Head(text)>>)
         \o as_bytes(Tail(text))

\* The outputs of a child: strings of one-byte and two-byte chars
Outputs == SeqsUpTo({"a", "é"}, MaxOutputLen)

\* str::len: the number of bytes of the UTF-8 encoding
str_len(text) == Len(as_bytes(text))

\* summarize_output: "verbatim" for Ok(output.to_string()), "summary" for the
\* text of the LLM call, "Err" when retrieve_model or fetch_chat_text fails
\* (`agent` tells whether cfg.agent is Some, `llm` how the LLM call ends)
summarize_output(agent, threshold, output, llm) ==
    IF ~agent THEN "verbatim"
    ELSE IF str_len(output) < threshold THEN "verbatim"
    ELSE IF llm = "Ok" THEN "summary"
    ELSE "Err"

\* the config of the collecting task and the output of the child, before any
\* call of summarize_output
InitSummarize(agent, threshold, output) ==
    /\ sm_agent = agent
    /\ sm_threshold = threshold
    /\ sm_output = output
    /\ sm_result = [kind |-> None]

\* handle_collect's call of summarize_output on the child's output
Summarize ==
    \E llm \in {"Ok", "Err"} :
        /\ sm_result' = [kind |-> summarize_output(sm_agent, sm_threshold, sm_output, llm)]
        /\ UNCHANGED <<sm_agent, sm_threshold, sm_output, sm_rest>>

NextSummarize == Summarize

\* AgentResult.output as the spawned task builds it: what run_child_agent
\* returned, or String::new() when it failed
child_outputs(exit_status) ==
    IF exit_status = "Completed" THEN Outputs ELSE {<<>>}

(***************************************************************************)
(* Agent tools (function/supervisor.rs): spawn, check, collect, cancel     *)
(***************************************************************************)
\* eval_tool_calls evaluates the calls of one turn one after the other, so a
\* handler runs to its end before the next starts; the children run beside it.

\* the checks of handle_spawn before it builds the child, without the depth one
spawn_gate_capacity_only(hs, mc, md, depth) ==
    IF Cardinality(DOMAIN hs) >= mc THEN "AtCapacity" ELSE "Pass"

\* the checks of handle_spawn before it builds the child: active_count against
\* max_concurrent, then current_depth + 1 against max_depth
spawn_gate(hs, mc, md, depth) ==
    IF Cardinality(DOMAIN hs) >= mc THEN "AtCapacity"
    ELSE IF depth + 1 > md THEN "MaxDepth"
    ELSE "Pass"

\* the exit_status the spawned task gives the AgentResult for the Result of
\* run_child_agent
child_result(outcome) ==
    IF outcome = "Ok" THEN "Completed" ELSE "Failed"

\* a handle_check that only looks at the handle
handle_check_peek(hs, id) ==
    IF id \notin DOMAIN hs THEN [handles |-> hs, status |-> "error"]
    ELSE IF hs[id].finished THEN [handles |-> hs, status |-> "completed"]
    ELSE [handles |-> hs, status |-> "pending"]

\* handle_check: is_finished(id), and for Some(true) the call of handle_collect,
\* which takes the handle
handle_check(hs, id) ==
    IF id \notin DOMAIN hs THEN [handles |-> hs, status |-> "error"]
    ELSE IF hs[id].finished THEN [handles |-> remove(hs, id), status |-> "completed"]
    ELSE [handles |-> hs, status |-> "pending"]

\* what a tool call leaves of the call before it
Prev == [op |-> tool.op, id |-> tool.id, status |-> tool.status]

\* the record of the tool call that starts now
ToolCall(op, id, status, exit_status) ==
    [n |-> tool.n + 1, op |-> op, id |-> id, status |-> status,
     exit_status |-> exit_status, text |-> None, prev |-> Prev]

\* a handler starts only when none is suspended
Idle == agent_pc.at = "idle" /\ tool.n < MaxToolCalls

InitAgent(depth) ==
    /\ current_depth = depth
    /\ next_agent = 1
    /\ children = <<>>
    /\ agent_pc = [at |-> "idle", id |-> 0]
    /\ tool = [n |-> 0, op |-> None, id |-> 0, status |-> None, exit_status |-> None,
               text |-> None, prev |-> [op |-> None, id |-> 0, status |-> None]]

\* handle_spawn up to Config::use_agent(..).await
SpawnBegin ==
    /\ Idle
    /\ next_agent <= MaxAgents
    /\ LET gate == spawn_gate(handles, max_concurrent, max_depth, current_depth)
       IN  IF gate = "Pass"
           THEN /\ agent_pc' = [at |-> "use_agent", id |-> next_agent]
                /\ tool' = ToolCall("spawn", next_agent, "awaiting", None)
                /\ next_agent' = next_agent + 1
           ELSE /\ tool' = ToolCall("spawn", 0, "error", None)
                /\ UNCHANGED <<agent_pc, next_agent>>
    /\ UNCHANGED <<handles, children, current_depth, agent_rest>>

\* Config::use_agent(..).await? fails: the call fails, nothing was spawned
SpawnInitFails ==
    /\ agent_pc.at = "use_agent"
    /\ agent_pc' = [at |-> "idle", id |-> 0]
    /\ tool' = [tool EXCEPT !.status = "Err"]
    /\ UNCHANGED <<handles, children, current_depth, next_agent, agent_rest>>

\* handle_spawn from tokio::spawn to its return: the child task is started,
\* then its handle is registered
SpawnRegister ==
    /\ agent_pc.at = "use_agent"
    /\ LET id == agent_pc.id
           r == register(handles, max_concurrent, max_depth, id, current_depth + 1)
       IN  /\ children' = [i \in DOMAIN children \cup {id} |->
                              IF i = id
                              THEN [state |-> "running", abort |-> FALSE,
                                    exit_status |-> None, ended_aborted |-> FALSE]
                              ELSE children[i]]
           /\ handles' = r.handles
           /\ tool' = [tool EXCEPT !.status = IF r.ret = "Ok" THEN "ok" ELSE "Err"]
    /\ agent_pc' = [at |-> "idle", id |-> 0]
    /\ UNCHANGED <<current_depth, next_agent, agent_rest>>

\* what handle_collect's summarize_output gives for the result of a child
\* with this exit_status: "Ok" or "Err"
Summaries(exit_status) ==
    {IF summarize_output(sm_agent, sm_threshold, output, llm) = "Err" THEN "Err" ELSE "Ok" :
        output \in child_outputs(exit_status), llm \in {"Ok", "Err"}}

\* handle_check; summarize_output may fail on its LLM call
Check ==
    /\ Idle
    /\ \E id \in AgentIds :
           LET r == handle_check(handles, id)
           IN  /\ handles' = r.handles
               /\ IF r.status = "completed"
                  THEN \E summary \in Summaries(children[id].exit_status) :
                           tool' = IF summary = "Ok"
                                   THEN ToolCall("check", id, "completed",
                                                 children[id].exit_status)
                                   ELSE ToolCall("check", id, "Err", None)
                  ELSE tool' = ToolCall("check", id, r.status, None)
    /\ UNCHANGED <<children, current_depth, next_agent, agent_pc, agent_rest>>

\* handle_collect up to handle.join_handle.await
CollectTake ==
    \E id \in AgentIds :
        /\ Idle
        /\ handles' = remove(handles, id)
        /\ IF id \in DOMAIN handles
           THEN /\ agent_pc' = [at |-> "join", id |-> id]
                /\ tool' = ToolCall("collect", id, "awaiting", None)
           ELSE /\ tool' = ToolCall("collect", id, "error", None)
                /\ UNCHANGED agent_pc
        /\ UNCHANGED <<children, current_depth, next_agent, agent_rest>>

\* handle_collect from the end of the child's task to its return
CollectJoin ==
    /\ agent_pc.at = "join"
    /\ children[agent_pc.id].state = "ended"
    /\ \E summary \in Summaries(children[agent_pc.id].exit_status) :
           tool' = IF summary = "Ok"
                   THEN [tool EXCEPT !.status = "completed",
                                     !.exit_status = children[agent_pc.id].exit_status]
                   ELSE [tool EXCEPT !.status = "Err"]
    /\ agent_pc' = [at |-> "idle", id |-> 0]
    /\ UNCHANGED <<handles, children, current_depth, next_agent, agent_rest>>

\* handle_cancel: the handle is taken and its abort signal set
Cancel ==
    \E id \in AgentIds :
        /\ Idle
        /\ handles' = remove(handles, id)
        /\ IF id \in DOMAIN handles
           THEN /\ children' = [children EXCEPT ![id].abort = TRUE]
                /\ tool' = ToolCall("cancel", id, "ok", None)
           ELSE /\ tool' = ToolCall("cancel", id, "error", None)
                /\ UNCHANGED children
        /\ UNCHANGED <<current_depth, next_agent, agent_pc, agent_rest>>

\* Supervisor::cancel_all: the abort signal of every registered handle is set
CancelAll ==
    /\ DOMAIN handles # {}
    /\ children' = [i \in DOMAIN children |->
                       IF i \in DOMAIN handles THEN [children[i] EXCEPT !.abort = TRUE]
                       ELSE children[i]]
    /\ UNCHANGED <<handles, current_depth, next_agent, agent_pc, tool, agent_rest>>

\* The spawned task ends: run_child_agent has left its loop with Ok (no tool
\* results in the last turn) or with Err (a `?` in the loop), and the task
\* builds the AgentResult
ChildEnds ==
    \E id \in DOMAIN children, outcome \in {"Ok", "Err"} :
        /\ children[id].state = "running"
        /\ children' = [children EXCEPT ![id].state = "ended",
                                        ![id].exit_status = child_result(outcome),
                                        ![id].ended_aborted = children[id].abort]
        /\ handles' = IF id \in DOMAIN handles
                      THEN [handles EXCEPT ![id].finished = TRUE]
                      ELSE handles
        /\ UNCHANGED <<current_depth, next_agent, agent_pc, tool, agent_rest>>

NextAgent ==
    \/ SpawnBegin \/ SpawnInitFails \/ SpawnRegister
    \/ Check \/ CollectTake \/ CollectJoin
    \/ Cancel \/ CancelAll \/ ChildEnds

(***************************************************************************)
(* Escalation (supervisor/escalation.rs, function/user_interaction.rs)     *)
(***************************************************************************)
EscIds == 1..MaxEscalations
EscChildren == 1..NumEscChildren

\* the depth of child c: one level per child, so depths 1..NumEscChildren occur
EscDepth(c) == c

\* handle_user_tool: the root prompts the terminal, any other agent escalates
handle_user_tool(depth) == IF depth = 0 THEN "direct" ELSE "escalated"

\* EscalationQueue::submit
submit(p, id, from) == [i \in DOMAIN p \cup {id} |-> IF i = id THEN [from |-> from] ELSE p[i]]

\* a take that looks the request up without removing it
queue_take_get(p, id) ==
    [pending |-> p, ret |-> IF id \in DOMAIN p THEN "Some" ELSE None]

\* EscalationQueue::take: HashMap::remove under the mutex
queue_take(p, id) ==
    [pending |-> [i \in DOMAIN p \ {id} |-> p[i]],
     ret |-> IF id \in DOMAIN p THEN "Some" ELSE None]

\* EscalationQueue::has_pending
has_pending(p) == DOMAIN p # {}

\* a wait on the receiver alone, with no timeout around it
escalation_result_no_timeout(chan, waited) ==
    IF chan = "sent" THEN "answer"
    ELSE IF chan = "dropped" THEN "cancelled"
    ELSE "pending"

\* a wait that takes a dropped sender for a reply still to come
escalation_result_ignores_drop(chan, waited) ==
    IF chan = "sent" THEN "answer"
    ELSE IF waited >= ESCALATION_TIMEOUT THEN "timed_out"
    ELSE "pending"

\* tokio::time::timeout(ESCALATION_TIMEOUT, rx).await and the match on it in
\* handle_escalated: the receiver is polled first (a reply gives {answer}, a
\* dropped sender the cancelled {error, fallback}), then the timer (the timed
\* out {error, fallback}); "pending" is the await not yet resolved
escalation_result(chan, waited) ==
    IF chan = "sent" THEN "answer"
    ELSE IF chan = "dropped" THEN "cancelled"
    ELSE IF waited >= ESCALATION_TIMEOUT THEN "timed_out"
    ELSE "pending"

InitEscalation ==
    /\ pending = <<>>
    /\ esc_next = 1
    /\ esc_child = [c \in EscChildren |->
                       [at |-> "running", id |-> 0, waited |-> 0, result |-> None]]
    /\ reply_chan = <<>>
    /\ esc_held = {}
    /\ taken = [i \in EscIds |-> 0]
    /\ esc_call = [op |-> "new", id |-> 0, ret |-> None]

\* handle_escalated up to the await: a fresh id, the oneshot channel, submit
Escalate(c) ==
    /\ esc_child[c].at = "running"
    /\ handle_user_tool(EscDepth(c)) = "escalated"
    /\ esc_next <= MaxEscalations
    /\ pending' = submit(pending, esc_next, c)
    /\ reply_chan' = [i \in DOMAIN reply_chan \cup {esc_next} |->
                         IF i = esc_next THEN "open" ELSE reply_chan[i]]
    /\ esc_child' = [esc_child EXCEPT ![c] = [at |-> "waiting", id |-> esc_next,
                                              waited |-> 0, result |-> None]]
    /\ esc_next' = esc_next + 1
    /\ esc_call' = [op |-> "submit", id |-> esc_next, ret |-> "Id"]
    /\ UNCHANGED <<esc_held, taken, esc_rest>>

\* TickSecs seconds pass for every child waiting on its timeout
Tick ==
    /\ \E c \in EscChildren :
           esc_child[c].at = "waiting" /\ esc_child[c].waited < ESCALATION_TIMEOUT
    /\ esc_child' = [c \in EscChildren |->
                        IF esc_child[c].at = "waiting"
                           /\ esc_child[c].waited < ESCALATION_TIMEOUT
                        THEN [esc_child[c] EXCEPT !.waited = @ + TickSecs]
                        ELSE esc_child[c]]
    /\ esc_call' = [op |-> "tick", id |-> 0, ret |-> None]
    /\ UNCHANGED <<pending, esc_next, reply_chan, esc_held, taken, esc_rest>>

\* handle_escalated from the resolved await to its return; the receiver is
\* consumed by the await
EscReturn(c) ==
    /\ esc_child[c].at = "waiting"
    /\ LET id == esc_child[c].id
           r == escalation_result(reply_chan[id], esc_child[c].waited)
       IN  /\ r # "pending"
           /\ esc_child' = [esc_child EXCEPT ![c].at = "running", ![c].result = r]
           /\ reply_chan' = [reply_chan EXCEPT ![id] = "closed"]
           /\ esc_call' = [op |-> "return", id |-> id, ret |-> r]
    /\ UNCHANGED <<pending, esc_next, esc_held, taken, esc_rest>>

\* EscalationQueue::take by whoever answers escalations; a request it returns
\* is held, with its reply_tx, by the caller
RootTake ==
    \E id \in EscIds :
        LET r == queue_take(pending, id)
        IN  /\ pending' = r.pending
            /\ esc_held' = IF r.ret = "Some" THEN esc_held \cup {id} ELSE esc_held
            /\ taken' = IF r.ret = "Some" THEN [taken EXCEPT ![id] = @ + 1] ELSE taken
            /\ esc_call' = [op |-> "take", id |-> id, ret |-> r.ret]
            /\ UNCHANGED <<esc_next, esc_child, reply_chan, esc_rest>>

\* the holder of a taken request sends on its reply_tx, which consumes the
\* sender; the send fails when the receiver is gone
RootReply ==
    \E id \in esc_held :
        /\ esc_held' = esc_held \ {id}
        /\ reply_chan' = [reply_chan EXCEPT
                              ![id] = IF @ = "open" THEN "sent" ELSE @]
        /\ esc_call' = [op |-> "reply", id |-> id,
                        ret |-> IF reply_chan[id] = "open" THEN "Ok" ELSE "Err"]
        /\ UNCHANGED <<pending, esc_next, esc_child, taken, esc_rest>>

\* the holder of a taken request drops it, and its reply_tx with it, unsent
RootDrop ==
    \E id \in esc_held :
        /\ esc_held' = esc_held \ {id}
        /\ reply_chan' = [reply_chan EXCEPT
                              ![id] = IF @ = "open" THEN "dropped" ELSE @]
        /\ esc_call' = [op |-> "drop", id |-> id, ret |-> None]
        /\ UNCHANGED <<pending, esc_next, esc_child, taken, esc_rest>>

NextEscalation ==
    \/ \E c \in EscChildren : Escalate(c)
    \/ Tick
    \/ \E c \in EscChildren : EscReturn(c)
    \/ RootTake \/ RootReply \/ RootDrop

(***************************************************************************)
(* Tool-call loop detection (client/stream.rs, SseHandler)                 *)
(***************************************************************************)
\* ToolCall {name, arguments, id}: three calls that differ in name or in
\* arguments, and one that differs from the first in its id only
Calls ==
    {[name |-> "f", arguments |-> 1, id |-> None],
     [name |-> "f", arguments |-> 1, id |-> "call_1"],
     [name |-> "f", arguments |-> 2, id |-> None],
     [name |-> "g", arguments |-> 1, id |-> None]}

\* a comparison of the names alone
calls_match_name_only(call1, call2) == call1.name = call2.name

\* SseHandler::calls_match
calls_match(call1, call2) ==
    call1.name = call2.name /\ call1.arguments = call2.arguments

\* the `for i in (0..len).rev()` loop of is_call_loop, entered at index i
\* (counted from 1 here) with repeat_count = count
RECURSIVE repeat_scan(_, _, _)
repeat_scan(last, i, count) ==
    IF i = 1 THEN FALSE
    ELSE IF calls_match(last[i - 1], last[i])
         THEN IF count + 1 >= max_call_repeats THEN TRUE
              ELSE repeat_scan(last, i - 1, count + 1)
         ELSE FALSE

\* an is_call_loop that looks at nothing before the history is full
is_call_loop_full_history(last, new_call) ==
    IF Len(last) < call_repeat_chain_len * max_call_repeats THEN FALSE
    ELSE calls_match(last[Len(last)], new_call)
         /\ repeat_scan(last, Len(last), 1)

\* SseHandler::is_call_loop on last_tool_calls = last
is_call_loop(last, new_call) ==
    IF Len(last) < call_repeat_chain_len THEN FALSE
    ELSE \/ /\ calls_match(last[Len(last)], new_call)
            /\ repeat_scan(last, Len(last), 1)
         \/ LET chain == SubSeq(last, Len(last) - call_repeat_chain_len + 1, Len(last))
            IN  /\ \A i \in 1..(Len(chain) - 1) : calls_match(chain[i], chain[i + 1])
                /\ calls_match(chain[Len(chain)], new_call)

\* SseHandler::create_loop_detection_message: the heading, the call named as
\* repeating, and the numbered chain (the last call_repeat_chain_len calls)
create_loop_detection_message(last, new_call) ==
    [heading |-> "Call loop detected!",
     repeating |-> [name |-> new_call.name, arguments |-> new_call.arguments],
     chain |-> IF Len(last) >= call_repeat_chain_len
               THEN [i \in 1..call_repeat_chain_len |->
                        LET c == last[Len(last) - call_repeat_chain_len + i]
                        IN  [name |-> c.name, arguments |-> c.arguments]]
               ELSE <<>>]

\* a tool_call that records the call before it looks for a loop
sse_tool_call_record_first(pending_calls, last, new_call) ==
    IF is_call_loop(last, new_call)
    THEN [tool_calls |-> pending_calls,
          last_tool_calls |->
              Append(IF Len(last) = call_repeat_chain_len * max_call_repeats
                     THEN Tail(last) ELSE last,
                     new_call),
          ret |-> "Err",
          message |-> create_loop_detection_message(last, new_call)]
    ELSE [tool_calls |-> Append(pending_calls, new_call),
          last_tool_calls |->
              Append(IF Len(last) = call_repeat_chain_len * max_call_repeats
                     THEN Tail(last) ELSE last,
                     new_call),
          ret |-> "Ok",
          message |-> None]

\* a tool_call that never evicts from the history
sse_tool_call_no_evict(pending_calls, last, new_call) ==
    IF is_call_loop(last, new_call)
    THEN [tool_calls |-> pending_calls, last_tool_calls |-> last, ret |-> "Err",
          message |-> create_loop_detection_message(last, new_call)]
    ELSE [tool_calls |-> Append(pending_calls, new_call),
          last_tool_calls |-> Append(last, new_call),
          ret |-> "Ok",
          message |-> None]

\* SseHandler::tool_call on a handler with the given tool_calls and
\* last_tool_calls: the two Vecs after the call and the Result
sse_tool_call(pending_calls, last, new_call) ==
    IF is_call_loop(last, new_call)
    THEN [tool_calls |-> pending_calls, last_tool_calls |-> last, ret |-> "Err",
          message |-> create_loop_detection_message(last, new_call)]
    ELSE [tool_calls |-> Append(pending_calls, new_call),
          last_tool_calls |->
              Append(IF Len(last) = call_repeat_chain_len * max_call_repeats
                     THEN Tail(last) ELSE last,
                     new_call),
          ret |-> "Ok",
          message |-> None]

\* SseHandler::new
InitSseHandler ==
    /\ tool_calls = <<>>
    /\ last_tool_calls = <<>>
    /\ fed = <<>>
    /\ verdicts = <<>>
    /\ message = None

\* one more tool call of the stream is handed to the handler
FeedToolCall ==
    \E new_call \in Calls :
        /\ Len(fed) < MaxFeed
        /\ LET r == sse_tool_call(tool_calls, last_tool_calls, new_call)
           IN  /\ tool_calls' = r.tool_calls
               /\ last_tool_calls' = r.last_tool_calls
               /\ verdicts' = Append(verdicts, r.ret)
               /\ message' = r.message
        /\ fed' = Append(fed, new_call)
        /\ UNCHANGED sse_rest

NextSseHandler == FeedToolCall

(***************************************************************************)
(* JSON stream parser (client/stream.rs, json_stream / JsonStreamParser)   *)
(***************************************************************************)
QUOTE == "\""
BACKSLASH == "\\"

\* Top-level objects, as sequences of chars:
\*   {"é":"}\"{"}        a char of two bytes; braces and an escaped quote
\*                       inside a string
\*   {"a":["]",{}]}      nested array and object, a bracket inside a string
\*   {"a":"\\"}          an escaped backslash before the closing quote
JsonObjects ==
    << <<"{", QUOTE, "é", QUOTE, ":", QUOTE, "}", BACKSLASH, QUOTE, "{", QUOTE, "}">>,
       <<"{", QUOTE, "a", QUOTE, ":", "[", QUOTE, "]", QUOTE, ",", "{", "}", "]", "}">>,
       <<"{", QUOTE, "a", QUOTE, ":", QUOTE, BACKSLASH, BACKSLASH, QUOTE, "}">> >>

\* the streams read: up to MaxStreamObjects of the objects, as NDJSON lines or
\* as the elements of one JSON array
JsonInputs ==
    [format : {"ndjson", "array"},
     objects : SeqsUpTo(1..Len(JsonObjects), MaxStreamObjects)]

\* the text of a stream
RECURSIVE Joined(_, _, _)
Joined(objects, k, sep) ==
    IF k > Len(objects) THEN <<>>
    ELSE JsonObjects[objects[k]]
         \o (IF k < Len(objects) THEN <<sep>> ELSE <<>>)
         \o Joined(objects, k + 1, sep)

StreamText(input) ==
    IF input.format = "ndjson" THEN Joined(input.objects, 1, "\n")
    ELSE <<"[">> \o Joined(input.objects, 1, ",") \o <<"]">>

\* std::str::from_utf8: the chars of the bytes, or "Err" when they are not
\* valid UTF-8 (here: a C3 with no A9 behind it, or an A9 with no C3 before)
RECURSIVE from_utf8(_)
from_utf8(bytes) ==
    IF bytes = <<>> THEN <<>>
    ELSE IF Head(bytes) = "C3"
         THEN IF Len(bytes) >= 2 /\ bytes[2] = "A9"
              THEN LET rest == from_utf8(Tail(Tail(bytes)))
                   IN  IF rest = "Err" THEN "Err" ELSE <<"é">> \o rest
              ELSE "Err"
         ELSE IF Head(bytes) = "A9" THEN "Err"
         ELSE LET rest == from_utf8(Tail(bytes))
              IN  IF rest = "Err" THEN "Err" ELSE <<Head(bytes)>> \o rest

\* a string scan for which every quote ends the string
string_char_no_escape(escape, ch) ==
    [quoting |-> ch # QUOTE, escape |-> FALSE]

\* JsonStreamParser::process on a char inside a string: quoting and escape
\* after it
string_char(escape, ch) ==
    IF ch = BACKSLASH THEN [quoting |-> TRUE, escape |-> ~escape]
    ELSE [quoting |-> ~(~escape /\ ch = QUOTE), escape |-> FALSE]

\* Vec::pop
pop(v) == IF v = <<>> THEN v ELSE SubSeq(v, 1, Len(v) - 1)

\* the body of the loop of JsonStreamParser::process for index i (counted
\* from 1); p.start = 0 is None; out is what the callback has been given
process_char(p, out, i) ==
    LET ch == p.buffer[i]
    IN  IF p.quoting
        THEN LET r == string_char(p.escape, ch)
             IN  [parser |-> [p EXCEPT !.quoting = r.quoting, !.escape = r.escape],
                  out |-> out]
        ELSE IF ch = QUOTE
        THEN [parser |-> [p EXCEPT !.quoting = TRUE, !.escape = FALSE], out |-> out]
        ELSE IF ch = "{"
        THEN [parser |-> [p EXCEPT !.start = IF p.balances = <<>> THEN i ELSE @,
                                   !.balances = Append(@, ch)],
              out |-> out]
        ELSE IF ch = "["
        THEN [parser |-> IF p.start # 0 THEN [p EXCEPT !.balances = Append(@, ch)]
                         ELSE p,
              out |-> out]
        ELSE IF ch = "}"
        THEN LET popped == pop(p.balances)
             IN  IF popped = <<>> /\ p.start # 0
                 THEN [parser |-> [p EXCEPT !.balances = popped, !.start = 0],
                       out |-> Append(out, SubSeq(p.buffer, p.start, i))]
                 ELSE [parser |-> [p EXCEPT !.balances = popped], out |-> out]
        ELSE IF ch = "]"
        THEN [parser |-> [p EXCEPT !.balances = pop(@)], out |-> out]
        ELSE [parser |-> p, out |-> out]

\* the loop of JsonStreamParser::process from index i to the end of the buffer
RECURSIVE process_from(_, _, _)
process_from(p, out, i) ==
    IF i > Len(p.buffer) THEN [parser |-> [p EXCEPT !.cursor = Len(p.buffer)], out |-> out]
    ELSE LET r == process_char(p, out, i)
         IN  process_from(r.parser, r.out, i + 1)

\* JsonStreamParser::process(text, handle) with a callback that returns Ok
process(p, out, text) ==
    process_from([p EXCEPT !.buffer = @ \o text], out, p.cursor + 1)

\* JsonStreamParser::default
JsonStreamParser_default ==
    [buffer |-> <<>>, cursor |-> 0, start |-> 0, balances |-> <<>>,
     quoting |-> FALSE, escape |-> FALSE]

\* json_stream before the first chunk of the stream `input`
InitJsonStream(input) ==
    /\ js_input = input
    /\ js_bytes = as_bytes(StreamText(input))
    /\ js_pos = 0
    /\ unparsed_bytes = <<>>
    /\ parser = JsonStreamParser_default
    /\ emitted = <<>>
    /\ js_done = FALSE
    /\ js_cuts = {}

\* where the chunk that ends here has cut the stream
Cuts(bytes_left, p) ==
    (IF bytes_left # <<>> THEN {"char"} ELSE {})
    \cup (IF p.quoting THEN {"string"} ELSE {})
    \cup (IF p.quoting /\ p.escape THEN {"escape"} ELSE {})
    \cup (IF ~p.quoting /\ p.balances # <<>> THEN {"object"} ELSE {})

\* one pass of the `while let Some(chunk_bytes)` loop of json_stream, for a
\* chunk of the next k bytes of the stream
JsonChunk ==
    LET bytes == js_bytes
    IN  /\ ~js_done
        /\ \E k \in 1..(Len(bytes) - js_pos) :
               LET extended == unparsed_bytes \o SubSeq(bytes, js_pos + 1, js_pos + k)
                   text == from_utf8(extended)
                   r == IF text = "Err" THEN [parser |-> parser, out |-> emitted]
                        ELSE process(parser, emitted, text)
               IN  /\ js_pos' = js_pos + k
                   /\ unparsed_bytes' = IF text = "Err" THEN extended ELSE <<>>
                   /\ parser' = r.parser
                   /\ emitted' = r.out
                   /\ js_cuts' = IF js_pos + k < Len(bytes)
                                 THEN js_cuts \cup Cuts(unparsed_bytes', r.parser)
                                 ELSE js_cuts
        /\ UNCHANGED <<js_input, js_bytes, js_done, js_rest>>

\* json_stream after the last chunk: what is left of unparsed_bytes is
\* processed (a from_utf8 error ends the call with Err)
JsonStreamEnd ==
    /\ ~js_done
    /\ js_pos = Len(js_bytes)
    /\ LET text == from_utf8(unparsed_bytes)
           r == IF text = "Err" THEN [parser |-> parser, out |-> emitted]
                ELSE process(parser, emitted, text)
       IN  /\ parser' = r.parser
           /\ emitted' = r.out
    /\ js_done' = TRUE
    /\ UNCHANGED <<js_input, js_bytes, js_pos, unparsed_bytes, js_cuts, js_rest>>

NextJsonStream == JsonChunk \/ JsonStreamEnd

(***************************************************************************)
(* TodoList (config/todo.rs)                                               *)
(***************************************************************************)
\* the largest of a non-empty set of numbers
Max(S) == CHOOSE x \in S : \A y \in S : y <= x

\* an add that gives the new item the largest id in use
todo_add_reuse(list) ==
    LET id == IF list = <<>> THEN 1 ELSE Max({list[i].id : i \in DOMAIN list})
    IN  [todos |-> Append(list, [id |-> id, done |-> FALSE]), ret |-> id]

\* TodoList::add: the list after the call and the id returned (the desc of
\* the item plays no part and is left out)
todo_add(list) ==
    LET id == (IF list = <<>> THEN 0 ELSE Max({list[i].id : i \in DOMAIN list})) + 1
    IN  [todos |-> Append(list, [id |-> id, done |-> FALSE]), ret |-> id]

\* TodoList::mark_done: the first item with this id is marked
todo_mark_done(list, id) ==
    LET found == {i \in DOMAIN list : list[i].id = id}
    IN  IF found # {}
        THEN [todos |-> [list EXCEPT ![CHOOSE i \in found : \A j \in found : i <= j].done = TRUE],
              ret |-> TRUE]
        ELSE [todos |-> list, ret |-> FALSE]

\* TodoList::incomplete_count and completed_count
incomplete_count(list) == Cardinality({i \in DOMAIN list : ~list[i].done})
completed_count(list) == Cardinality({i \in DOMAIN list : list[i].done})

\* TodoList::new
InitTodoList ==
    /\ todos = <<>>
    /\ todo_call = [op |-> "new", id |-> 0, ret |-> None]

\* TodoList::new again: the list is replaced by an empty one
TodoNew ==
    /\ todos' = <<>>
    /\ todo_call' = [op |-> "new", id |-> 0, ret |-> None]
    /\ UNCHANGED todo_rest

TodoAdd ==
    /\ Len(todos) < MaxTodos
    /\ LET r == todo_add(todos)
       IN  /\ todos' = r.todos
           /\ todo_call' = [op |-> "add", id |-> 0, ret |-> r.ret]
    /\ UNCHANGED todo_rest

TodoMarkDone ==
    \E id \in 0..(MaxTodos + 1) :
        LET r == todo_mark_done(todos, id)
        IN  /\ todos' = r.todos
            /\ todo_call' = [op |-> "mark_done", id |-> id, ret |-> r.ret]
            /\ UNCHANGED todo_rest

NextTodoList == TodoNew \/ TodoAdd \/ TodoMarkDone

(***************************************************************************)
(* Lock scopes of the tool handlers (function/supervisor.rs)               *)
(***************************************************************************)
\* A handler is followed as the sequence of what it does to the locks: it
\* takes a guard (acq), a guard goes out of scope (rel), it is suspended at an
\* await, it returns. The guards are those of the caller's GlobalConfig
\* ("cfg.read"), of a child's own GlobalConfig ("child_cfg.read") and of the
\* parent's Supervisor ("sup.read", "sup.write").
acq(g) == [op |-> "acq", on |-> g]
rel(g) == [op |-> "rel", on |-> g]
await(what) == [op |-> "await", on |-> what]
ret == [op |-> "ret", on |-> None]

\* `{ let cfg = config.read(); let sup = supervisor.read() or .write(); .. }`:
\* both guards are taken, and dropped in reverse order at the end of the block
\* or at a return inside it
locked_block(g) == <<acq("cfg.read"), acq(g), rel(g), rel("cfg.read")>>

\* a statement that reads the config through a temporary guard
config_read == <<acq("cfg.read"), rel("cfg.read")>>

\* handle_spawn without its return: refused at capacity inside the first
\* block or for the depth after it (one path, the guards being dropped alike),
\* failed in use_agent, or registered
handle_spawn_paths ==
    {locked_block("sup.read"),
     locked_block("sup.read") \o config_read \o <<await("use_agent")>>,
     locked_block("sup.read") \o config_read \o <<await("use_agent")>>
         \o locked_block("sup.write")}

\* summarize_output: no agent or a short output, a model that is not found,
\* or the LLM call
summarize_output_paths ==
    {config_read,
     config_read \o config_read,
     config_read \o config_read \o <<await("fetch_chat_text")>>}

\* a handle_collect that keeps its guards until the join handle has resolved
handle_collect_paths_held ==
    {locked_block("sup.write")}
    \cup {<<acq("cfg.read"), acq("sup.write"), await("join"),
            rel("sup.write"), rel("cfg.read")>> \o s : s \in summarize_output_paths \cup {<<>>}}

\* handle_collect without its return: no such handle, or the handle taken
\* inside the block, the join handle awaited after it (a panicked task ends
\* the call there), then summarize_output
handle_collect_paths ==
    {locked_block("sup.write")}
    \cup {locked_block("sup.write") \o <<await("join")>> \o s :
             s \in summarize_output_paths \cup {<<>>}}

\* handle_check without its return: is_finished inside the block, then for
\* Some(true) handle_collect
handle_check_paths ==
    {locked_block("sup.read")}
    \cup {locked_block("sup.read") \o c : c \in handle_collect_paths}

\* handle_task_complete without its return: the block under the write lock,
\* then a handle_spawn for each entry of the dispatch list (none, one or two)
handle_task_complete_paths ==
    {locked_block("sup.write")}
    \cup {locked_block("sup.write") \o s : s \in handle_spawn_paths}
    \cup {locked_block("sup.write") \o s \o t :
             s \in handle_spawn_paths, t \in handle_spawn_paths}

\* the handlers without an await: list, task_list (read), cancel, task_create
\* (write), check_inbox (the config alone)
sync_handler_paths ==
    {locked_block("sup.read"), locked_block("sup.write"), config_read}

\* handle_send_message of a sibling: its own config is read for the whole
\* call, the parent's Supervisor through parent_supervisor for one expression
handle_send_message_paths ==
    {<<acq("child_cfg.read"), acq("sup.read"), rel("sup.read"), rel("child_cfg.read")>>}

LockTasks == {"parent", "sibling"}

\* What each task may call: the parent any tool, the sibling send_message
HandlerPaths(t) ==
    IF t = "parent"
    THEN {p \o <<ret>> : p \in handle_spawn_paths \cup handle_collect_paths
                               \cup handle_check_paths \cup handle_task_complete_paths
                               \cup sync_handler_paths}
    ELSE {p \o <<ret>> : p \in handle_send_message_paths}

\* RwLock: a read guard is given while there is no write guard, a write guard
\* while there is no guard at all; the two configs are only read here
Available(g, held) ==
    LET all == UNION {held[t] : t \in LockTasks}
    IN  CASE g = "sup.read" -> "sup.write" \notin all
          [] g = "sup.write" -> "sup.write" \notin all /\ "sup.read" \notin all
          [] OTHER -> TRUE

\* the step task t is at
LockOp(t) == lk_pc[t].path[lk_pc[t].i]
Running(t) == lk_pc[t].i > 0

InitLocks ==
    /\ lk_pc = [t \in LockTasks |-> [path |-> <<>>, i |-> 0]]
    /\ lk_held = [t \in LockTasks |-> {}]
    /\ lk_child = "running"

\* a tool call starts
LockCall(t) ==
    /\ ~Running(t)
    /\ \E p \in HandlerPaths(t) : lk_pc' = [lk_pc EXCEPT ![t] = [path |-> p, i |-> 1]]
    /\ UNCHANGED <<lk_held, lk_child, lk_rest>>

\* config.read(), supervisor.read(), supervisor.write(): the thread waits
\* until the guard can be given
LockAcquire(t) ==
    /\ Running(t) /\ LockOp(t).op = "acq"
    /\ Available(LockOp(t).on, lk_held)
    /\ lk_held' = [lk_held EXCEPT ![t] = @ \cup {LockOp(t).on}]
    /\ lk_pc' = [lk_pc EXCEPT ![t].i = @ + 1]
    /\ UNCHANGED <<lk_child, lk_rest>>

\* a guard is dropped
LockRelease(t) ==
    /\ Running(t) /\ LockOp(t).op = "rel"
    /\ lk_held' = [lk_held EXCEPT ![t] = @ \ {LockOp(t).on}]
    /\ lk_pc' = [lk_pc EXCEPT ![t].i = @ + 1]
    /\ UNCHANGED <<lk_child, lk_rest>>

\* the future a task is suspended on resolves; a join handle resolves when the
\* child's task has ended
LockResume(t) ==
    /\ Running(t) /\ LockOp(t).op = "await"
    /\ LockOp(t).on = "join" => lk_child = "ended"
    /\ lk_pc' = [lk_pc EXCEPT ![t].i = @ + 1]
    /\ lk_child' = IF LockOp(t).on = "join" THEN "running" ELSE lk_child
    /\ UNCHANGED <<lk_held, lk_rest>>

\* the handler returns
LockReturn(t) ==
    /\ Running(t) /\ LockOp(t).op = "ret"
    /\ lk_pc' = [lk_pc EXCEPT ![t] = [path |-> <<>>, i |-> 0]]
    /\ UNCHANGED <<lk_held, lk_child, lk_rest>>

\* the child a collect waits for ends (after a join, lk_child stands for the
\* next child collected)
LockChildEnds ==
    /\ lk_child = "running"
    /\ lk_child' = "ended"
    /\ UNCHANGED <<lk_pc, lk_held, lk_rest>>

NextLocks ==
    \/ \E t \in LockTasks : LockCall(t)
    \/ \E t \in LockTasks : LockAcquire(t)
    \/ \E t \in LockTasks : LockRelease(t)
    \/ \E t \in LockTasks : LockResume(t)
    \/ \E t \in LockTasks : LockReturn(t)
    \/ LockChildEnds

(***************************************************************************)
(* Child agent loop (function/supervisor.rs run_child_agent,               *)
(* function/mod.rs eval_tool_calls)                                        *)
(***************************************************************************)
\* the turns a child is followed for, and the tool calls of one response
MaxTurns == 3
MaxTurnCalls == 2

\* the newline run_child_agent pushes between two outputs
NL == "\n"

\* the output text of one turn, a sequence of characters
TurnOutputs == {<<>>, <<"a">>, <<"b">>}

\* a tool call of a response: its id and what ToolCall::eval gives for it
TurnCall == [id : {None, "call_1"}, eval : {"null", "value", "Err"}]
TurnCalls == UNION {[1..n -> TurnCall] : n \in 0..MaxTurnCalls}

\* what one turn is fed: whether a `?` before or after the request fails, and
\* the response of the LLM
TurnInputs ==
    [fails : {"none", "before_chat_completion", "after_chat_completion"},
     output : TurnOutputs, calls : TurnCalls]

reverse(s) == [i \in 1..Len(s) |-> s[Len(s) + 1 - i]]

\* the loop of ToolCall::dedup over calls.into_iter().rev(), at index i
RECURSIVE dedup_scan(_, _, _, _)
dedup_scan(calls, i, seen_ids, new_calls) ==
    IF i = 0 THEN new_calls
    ELSE IF calls[i].id # None
         THEN IF calls[i].id \notin seen_ids
              THEN dedup_scan(calls, i - 1, seen_ids \cup {calls[i].id},
                              Append(new_calls, calls[i]))
              ELSE dedup_scan(calls, i - 1, seen_ids, new_calls)
         ELSE dedup_scan(calls, i - 1, seen_ids, Append(new_calls, calls[i]))

\* ToolCall::dedup: of the calls with the same id the last one is kept
dedup(calls) == reverse(dedup_scan(calls, Len(calls), {}, <<>>))

\* eval_tool_calls: the Result and, for Ok, the Vec<ToolResult>
eval_tool_calls(calls) ==
    IF calls = <<>> THEN [ret |-> "Ok", output |-> <<>>]
    ELSE LET d == dedup(calls)
         IN  IF d = <<>> THEN [ret |-> "Err", output |-> <<>>]
             ELSE IF \E i \in DOMAIN d : d[i].eval = "Err"
                  THEN [ret |-> "Err", output |-> <<>>]
             ELSE IF \A i \in DOMAIN d : d[i].eval = "null"
                  THEN [ret |-> "Ok", output |-> <<>>]
             ELSE [ret |-> "Ok",
                   output |-> [i \in DOMAIN d |->
                                  [id |-> d[i].id,
                                   result |-> IF d[i].eval = "null" THEN "DONE"
                                              ELSE d[i].eval]]]

\* call_chat_completions: the output text of the response and the results of
\* its tool calls
call_chat_completions(output, calls) ==
    LET r == eval_tool_calls(calls)
    IN  [ret |-> r.ret, output |-> output, tool_results |-> r.output]

\* an accumulation that pushes the newline for an empty output too
push_output_every_turn(accumulated, output) ==
    (IF accumulated # <<>> THEN Append(accumulated, NL) ELSE accumulated) \o output

\* run_child_agent, lines 295-300: the output of a turn goes on
\* accumulated_output, behind a newline when something is there already
push_output(accumulated, output) ==
    IF output # <<>>
    THEN (IF accumulated # <<>> THEN Append(accumulated, NL) ELSE accumulated) \o output
    ELSE accumulated

\* run_child_agent before its first turn
InitRunChild ==
    /\ rc_pc = "loop"
    /\ accumulated_output = <<>>
    /\ rc_turns = <<>>
    /\ rc_result = [exit_status |-> None, output |-> <<>>]

\* one pass of run_child_agent's loop, and the AgentResult the spawned task
\* builds when the pass leaves the loop
Turn ==
    \E input \in TurnInputs :
        /\ rc_pc = "loop"
        /\ Len(rc_turns) < MaxTurns
        /\ LET r == call_chat_completions(input.output, input.calls)
           IN  IF input.fails # "none" \/ r.ret = "Err"
               THEN /\ rc_pc' = "failed"
                    /\ rc_result' = [exit_status |-> child_result("Err"), output |-> <<>>]
                    /\ UNCHANGED <<accumulated_output, rc_turns>>
               ELSE /\ accumulated_output' = push_output(accumulated_output, r.output)
                    /\ rc_turns' = Append(rc_turns, [output |-> r.output,
                                                     tool_results |-> Len(r.tool_results)])
                    /\ IF r.tool_results = <<>>
                       THEN /\ rc_pc' = "done"
                            /\ rc_result' = [exit_status |-> child_result("Ok"),
                                             output |-> accumulated_output']
                       ELSE UNCHANGED <<rc_pc, rc_result>>
        /\ UNCHANGED rc_rest

NextRunChild == Turn

(***************************************************************************)
(* Messages between agents (function/supervisor.rs handle_send_message)    *)
(***************************************************************************)
\* the agents registered in the parent's supervisor beside the sender: the
\* sender itself and its siblings
NumSiblings == 2
SiblingIds == (MaxAgents + 1)..(MaxAgents + NumSiblings)

\* the message texts
Texts == {"a", "b"}

\* cfg.self_agent_id of an agent at this depth, 0 for None: a spawned child
\* carries the id its parent registered it under
self_agent_id(depth) == IF depth = 0 THEN 0 ELSE MaxAgents + 1

\* the sender identity: self_agent_id, or else the name of the active agent
sender(depth) ==
    IF self_agent_id(depth) # 0 THEN [kind |-> "agent_id", id |-> self_agent_id(depth)]
    ELSE [kind |-> "agent_name", id |-> 0]

\* Supervisor::inbox on a supervisor with these registered ids: the inbox of
\* the handle, named by the agent it was made for; {} for None
inbox(registered, id) == IF id \in registered THEN {id} ELSE {}

\* Inbox::deliver on one buffer
deliver(buffer, envelope) == Append(buffer, envelope)

\* a send that looks in the sender's own supervisor only
handle_send_message_local_only(own, parent, boxes, from, id, text) ==
    LET found == inbox(own, id)
    IN  IF found # {}
        THEN LET to == CHOOSE b \in found : TRUE
             IN  [inboxes |-> [boxes EXCEPT ![to] =
                                  deliver(@, [from |-> from, to |-> id,
                                              payload |-> [kind |-> "Text",
                                                           content |-> text]])],
                  status |-> "ok"]
        ELSE [inboxes |-> boxes, status |-> "error"]

\* handle_send_message: own are the ids registered in cfg.supervisor, parent
\* those in cfg.parent_supervisor ({} when there is none); the inboxes after
\* the call and the status of the response (the envelope's timestamp is left
\* out)
handle_send_message(own, parent, boxes, from, id, text) ==
    LET local == inbox(own, id)
        found == IF local # {} THEN local ELSE inbox(parent, id)
    IN  IF found # {}
        THEN LET to == CHOOSE b \in found : TRUE
             IN  [inboxes |-> [boxes EXCEPT ![to] =
                                  deliver(@, [from |-> from, to |-> id,
                                              payload |-> [kind |-> "Text",
                                                           content |-> text]])],
                  status |-> "ok"]
        ELSE [inboxes |-> boxes, status |-> "error"]

\* no message sent yet; the parent's supervisor holds the given ids
InitMessages(parent) ==
    /\ parent_handles = parent
    /\ inboxes = [id \in AgentIds \cup SiblingIds |-> <<>>]

\* agent__send_message
SendMessage ==
    \E id \in AgentIds \cup SiblingIds, text \in Texts :
        /\ Idle
        /\ LET r == handle_send_message(DOMAIN handles, parent_handles, inboxes,
                                        sender(current_depth), id, text)
           IN  /\ inboxes' = r.inboxes
               /\ tool' = [ToolCall("send_message", id, r.status, None)
                               EXCEPT !.text = text]
        /\ UNCHANGED <<handles, children, current_depth, next_agent, agent_pc,
                       parent_handles, max_concurrent, max_depth, sup_call, tq_vars,
                       inbox_vars, esc_vars, sse_vars, js_vars, todo_vars, tt_vars,
                       sm_vars, lk_vars, rc_vars>>

\* the parent takes the handle of a sibling or of the sender out of its
\* supervisor (its own agent__collect, agent__check or agent__cancel); the
\* siblings are alike, so the one registered last goes first
ParentTakes ==
    \E id \in parent_handles :
        /\ \A other \in parent_handles : other <= id
        /\ parent_handles' = parent_handles \ {id}
        /\ UNCHANGED <<inboxes, sup_vars, agent_vars, tq_vars, inbox_vars,
                       esc_vars, sse_vars, js_vars, todo_vars, tt_vars, sm_vars,
                       lk_vars, rc_vars>>

NextMessages ==
    \/ SpawnBegin \/ SpawnInitFails \/ SpawnRegister
    \/ Check \/ CollectTake \/ CollectJoin
    \/ Cancel \/ ChildEnds
    \/ SendMessage \/ ParentTakes

(***************************************************************************)
(* Task tools (function/supervisor.rs): task_create, task_complete         *)
(***************************************************************************)
\* The names an "agent" argument is drawn from
DispatchAgents == {"explore"}

NoArgs == [agent |-> None, prompt |-> None]

\* The "agent" and "prompt" arguments task_create is called with: neither, both,
\* or an agent without a prompt
Payloads_task_create ==
    {NoArgs} \cup {[agent |-> a, prompt |-> p] : a \in DispatchAgents, p \in {None, "prompt"}}

\* Tasks calling agent__task_complete side by side
Callers == {"turn", "other"}

\* the elements of a set of numbers in ascending order
RECURSIVE Ascending(_)
Ascending(S) ==
    IF S = {} THEN <<>>
    ELSE LET m == CHOOSE x \in S : \A y \in S : x <= y
         IN  <<m>> \o Ascending(S \ {m})

\* The blocked_by arrays task_create is called with: any ids, the own one and
\* unknown ones among them (a new task blocks nothing, so each add_dependency
\* is judged on its own and the order of the array plays no part)
BlockedByLists == {Ascending(S) : S \in SUBSET TaskIds}

\* TaskQueue::create(subject, description, dispatch_agent, prompt): the node
\* keeps the auto-dispatch payload it is given
create(q, nid, dsp, agent, prompt) ==
    [q |-> q @@ (nid :> TaskNode_new),
     next_id |-> nid + 1,
     dispatch |-> dsp @@ (nid :> [dispatch_agent |-> agent, prompt |-> prompt]),
     id |-> nid]

\* handle_task_create's loop over blocked_by: the queue after the calls of
\* add_dependency and the number of errors collected
RECURSIVE add_dependencies(_, _, _, _)
add_dependencies(q, task_id, blocked_by, errors) ==
    IF blocked_by = <<>> THEN [q |-> q, errors |-> errors]
    ELSE LET r == add_dependency(q, task_id, Head(blocked_by))
         IN  add_dependencies(r.q, task_id, Tail(blocked_by),
                              IF r.ret = "Ok" THEN errors ELSE errors + 1)

\* a handle_task_create without the test of "prompt"
handle_task_create_unchecked(q, nid, dsp, blocked_by, agent, prompt) ==
    LET c == create(q, nid, dsp, agent, prompt)
        d == add_dependencies(c.q, c.id, blocked_by, 0)
    IN  [q |-> d.q, next_id |-> c.next_id, dispatch |-> c.dispatch, ret |-> "ok",
         task_id |-> c.id, auto_dispatch |-> agent # None, warnings |-> d.errors]

\* handle_task_create: the queue after the call and the response
handle_task_create(q, nid, dsp, blocked_by, agent, prompt) ==
    IF agent # None /\ prompt = None
    THEN [q |-> q, next_id |-> nid, dispatch |-> dsp, ret |-> "Err",
          task_id |-> 0, auto_dispatch |-> FALSE, warnings |-> 0]
    ELSE LET c == create(q, nid, dsp, agent, prompt)
             d == add_dependencies(c.q, c.id, blocked_by, 0)
         IN  [q |-> d.q, next_id |-> c.next_id, dispatch |-> c.dispatch, ret |-> "ok",
              task_id |-> c.id, auto_dispatch |-> agent # None, warnings |-> d.errors]

\* the owner handle_task_complete claims a task for
auto_owner(agent) == "auto:" \o agent

\* handle_task_complete's second loop with the claim left out
RECURSIVE claim_each_unclaimed(_, _, _)
claim_each_unclaimed(q, to_dispatch, dispatchable) ==
    IF to_dispatch = <<>> THEN [q |-> q, dispatchable |-> dispatchable]
    ELSE claim_each_unclaimed(q, Tail(to_dispatch),
                              Append(dispatchable, Head(to_dispatch)))

\* handle_task_complete's second loop: each (tid, agent, prompt) of to_dispatch
\* is claimed, and the claimed ones make the dispatch list (the task id is kept
\* beside the (agent, prompt) pair of the code to tell the entries apart)
RECURSIVE claim_each(_, _, _)
claim_each(q, to_dispatch, dispatchable) ==
    IF to_dispatch = <<>> THEN [q |-> q, dispatchable |-> dispatchable]
    ELSE LET d == Head(to_dispatch)
             r == claim(q, d.task, auto_owner(d.agent))
         IN  claim_each(r.q, Tail(to_dispatch),
                        IF r.ret THEN Append(dispatchable, d) ELSE dispatchable)

\* handle_task_complete's block under the Supervisor write lock: complete,
\* the newly runnable tasks that carry an agent and a prompt, their claims
task_complete_block(q, dsp, task_id, order) ==
    LET r == complete(q, task_id, order)
        known == SelectSeq(r.ret, LAMBDA id : id \in DOMAIN r.q)
        payload(id) == [task |-> id, agent |-> dsp[id].dispatch_agent,
                        prompt |-> dsp[id].prompt]
        with_payload == SelectSeq(known, LAMBDA id : /\ dsp[id].dispatch_agent # None
                                                      /\ dsp[id].prompt # None)
        to_dispatch == [i \in DOMAIN with_payload |-> payload(with_payload[i])]
        c == claim_each(r.q, to_dispatch, <<>>)
    IN  [q |-> c.q, newly_runnable |-> known, dispatchable |-> c.dispatchable]

\* a caller that is in no handler
IdleCaller ==
    [at |-> "idle", task_id |-> 0, newly_runnable |-> <<>>, dispatchable |-> <<>>,
     queue |-> <<>>, spawned |-> <<>>, id |-> 0]

InitTaskTools ==
    /\ dispatch = <<>>
    /\ tc = [c \in Callers |-> IdleCaller]
    /\ tt_call = [seq |-> 0, op |-> None, caller |-> None, status |-> None, task_id |-> 0,
                  newly_runnable |-> <<>>, auto_dispatched |-> <<>>, args |-> NoArgs]
    /\ attempts = [t \in TaskIds |-> 0]
    /\ tt_n = 0

\* one more call of a task tool
ToolCalled ==
    /\ tt_n < MaxTaskCalls
    /\ tt_n' = tt_n + 1

\* handle_task_create
TaskCreate ==
    \E blocked_by \in BlockedByLists, args \in Payloads_task_create :
        /\ ToolCalled
        /\ next_id <= MaxTasks
        /\ LET r == handle_task_create(tasks, next_id, dispatch, blocked_by,
                                       args.agent, args.prompt)
           IN  /\ tasks' = r.q
               /\ next_id' = r.next_id
               /\ dispatch' = r.dispatch
               /\ tt_call' = [seq |-> tt_call.seq + 1, op |-> "task_create", caller |-> None,
                              status |-> r.ret, task_id |-> r.task_id,
                              newly_runnable |-> <<>>, auto_dispatched |-> <<>>,
                              args |-> args]
        /\ UNCHANGED <<tc, attempts, call, claimed, ncalls, tt_rest>>

\* the end of handle_task_complete: the response is built and returned
Returned(c, spawned) ==
    [seq |-> tt_call.seq + 1, op |-> "task_complete", caller |-> c, status |-> "ok",
     task_id |-> tc[c].task_id, newly_runnable |-> tc[c].newly_runnable,
     auto_dispatched |-> spawned, args |-> NoArgs]

\* a spawn loop that stops at the first entry that failed
after_spawn_break(queue, entry) ==
    IF entry.status = "error" THEN <<>> ELSE Tail(queue)

\* what is left of `for (agent, prompt) in &dispatchable` after the entry for
\* its head was pushed on `spawned`: both arms of the match go on
after_spawn(queue, entry) == Tail(queue)

\* handle_task_complete after one handle_spawn gave `entry`: the next entry of
\* the dispatch list, or the return when there is none
Advance(c, entry) ==
    LET spawned == Append(tc[c].spawned, entry)
        queue == after_spawn(tc[c].queue, entry)
    IN  IF queue = <<>>
        THEN /\ tc' = [tc EXCEPT ![c] = IdleCaller]
             /\ tt_call' = Returned(c, spawned)
        ELSE /\ tc' = [tc EXCEPT ![c].at = "spawn", ![c].queue = queue,
                                 ![c].spawned = spawned, ![c].id = 0]
             /\ UNCHANGED tt_call

\* handle_task_complete up to the release of the locks; with an empty dispatch
\* list the handler has no await and returns. The callers are alike, so
\* "other" starts a call only while "turn" is in one.
TaskCompleteBegin(c) ==
    \E task_id \in TaskIds :
        \E order \in Orders(IF task_id \in DOMAIN tasks
                            THEN tasks[task_id].blocks ELSE {}) :
            /\ ToolCalled
            /\ tc[c].at = "idle"
            /\ c = "turn" \/ tc["turn"].at # "idle"
            /\ LET r == task_complete_block(tasks, dispatch, task_id, order)
               IN  /\ tasks' = r.q
                   /\ IF r.dispatchable = <<>>
                      THEN /\ tt_call' = [seq |-> tt_call.seq + 1, op |-> "task_complete",
                                          caller |-> c, status |-> "ok",
                                          task_id |-> task_id,
                                          newly_runnable |-> r.newly_runnable,
                                          auto_dispatched |-> <<>>, args |-> NoArgs]
                           /\ UNCHANGED tc
                      ELSE /\ tc' = [tc EXCEPT ![c] =
                                        [at |-> "spawn", task_id |-> task_id,
                                         newly_runnable |-> r.newly_runnable,
                                         dispatchable |-> r.dispatchable,
                                         queue |-> r.dispatchable,
                                         spawned |-> <<>>, id |-> 0]]
                           /\ UNCHANGED tt_call
            /\ UNCHANGED <<next_id, dispatch, attempts, call, claimed, ncalls, tt_rest>>

\* handle_spawn for the head of the dispatch list, up to its await: refused by
\* a check (an Ok response with status "error"), or on to Config::use_agent
TaskSpawnBegin(c) ==
    /\ tc[c].at = "spawn"
    /\ attempts' = [attempts EXCEPT ![Head(tc[c].queue).task] = @ + 1]
    /\ LET gate == spawn_gate(handles, max_concurrent, max_depth, current_depth)
       IN  IF gate = "Pass"
           THEN /\ tc' = [tc EXCEPT ![c].at = "use_agent", ![c].id = next_agent]
                /\ next_agent' = next_agent + 1
                /\ UNCHANGED tt_call
           ELSE /\ Advance(c, [status |-> "error", id |-> 0,
                               task |-> Head(tc[c].queue).task, why |-> gate])
                /\ UNCHANGED next_agent
    /\ UNCHANGED <<dispatch, tt_n, handles, tq_vars, tt_rest_agent>>

\* Config::use_agent(..).await? fails: handle_spawn returns Err, the entry is
\* the "Auto-dispatch failed" one
TaskSpawnInitFails(c) ==
    /\ tc[c].at = "use_agent"
    /\ Advance(c, [status |-> "error", id |-> 0,
                   task |-> Head(tc[c].queue).task, why |-> "Err"])
    /\ UNCHANGED <<dispatch, attempts, tt_n, handles, next_agent, tq_vars, tt_rest_agent>>

\* handle_spawn from tokio::spawn to its return: register, whose Err makes the
\* "Auto-dispatch failed" entry
TaskSpawnRegister(c) ==
    /\ tc[c].at = "use_agent"
    /\ LET r == register(handles, max_concurrent, max_depth, tc[c].id, current_depth + 1)
       IN  /\ handles' = r.handles
           /\ Advance(c, IF r.ret = "Ok"
                         THEN [status |-> "ok", id |-> tc[c].id,
                               task |-> Head(tc[c].queue).task, why |-> None]
                         ELSE [status |-> "error", id |-> 0,
                               task |-> Head(tc[c].queue).task, why |-> "Err"])
    /\ UNCHANGED <<dispatch, attempts, tt_n, next_agent, tq_vars, tt_rest_agent>>

\* Supervisor::take in a handle_collect or handle_cancel of a sibling tool call:
\* a registered agent leaves the supervisor
AgentTaken ==
    \E id \in DOMAIN handles :
        /\ handles' = remove(handles, id)
        /\ UNCHANGED <<tt_vars, next_agent, tq_vars, tt_rest_agent>>

\* The task tools of an agent at depth 0 whose supervisor admits one child at
\* a time, at depth up to MaxDepth or at no depth at all
InitAnyTaskTools ==
    /\ InitTaskQueue
    /\ \E md \in {0, MaxDepth} : InitSupervisor(1, md)
    /\ InitInbox
    /\ InitAgent(0)
    /\ InitEscalation
    /\ InitSseHandler
    /\ InitTodoList
    /\ InitTaskTools
    /\ InitLocks
    /\ InitRunChild
    /\ InitMessages({})
    /\ InitSummarize(TRUE, default_summarization_threshold, <<>>)
    /\ InitJsonStream([format |-> "ndjson", objects |-> <<>>])

NextTaskTools ==
    \/ TaskCreate
    \/ \E c \in Callers : TaskCompleteBegin(c)
    \/ \E c \in Callers : TaskSpawnBegin(c)
    \/ \E c \in Callers : TaskSpawnInitFails(c)
    \/ \E c \in Callers : TaskSpawnRegister(c)
    \/ AgentTaken

(***************************************************************************)
(* Specifications                                                          *)
(***************************************************************************)
\* The state after construction, with the supervisor of a default agent config
Init ==
    /\ InitTaskQueue
    /\ InitSupervisor(default_max_concurrent_agents, default_max_agent_depth)
    /\ InitInbox
    /\ InitAgent(0)
    /\ InitEscalation
    /\ InitSseHandler
    /\ InitTodoList
    /\ InitTaskTools
    /\ InitLocks
    /\ InitRunChild
    /\ InitMessages({})
    /\ InitSummarize(TRUE, default_summarization_threshold, <<>>)
    /\ InitJsonStream([format |-> "ndjson", objects |-> <<>>])

\* The state after construction for any small max_concurrent and max_depth
InitAnySupervisor ==
    /\ InitTaskQueue
    /\ \E mc \in 0..MaxConcurrent, md \in 0..MaxDepth : InitSupervisor(mc, md)
    /\ InitInbox
    /\ InitAgent(0)
    /\ InitEscalation
    /\ InitSseHandler
    /\ InitTodoList
    /\ InitTaskTools
    /\ InitLocks
    /\ InitRunChild
    /\ InitMessages({})
    /\ InitSummarize(TRUE, default_summarization_threshold, <<>>)
    /\ InitJsonStream([format |-> "ndjson", objects |-> <<>>])

\* An agent at any small depth evaluating tool calls on its supervisor
InitAnyAgent ==
    /\ InitTaskQueue
    /\ \E mc \in 0..MaxConcurrent, md \in 0..MaxDepth : InitSupervisor(mc, md)
    /\ InitInbox
    /\ \E depth \in 0..MaxDepth : InitAgent(depth)
    /\ InitEscalation
    /\ InitSseHandler
    /\ InitTodoList
    /\ InitTaskTools
    /\ InitLocks
    /\ InitRunChild
    /\ InitMessages({})
    /\ \E threshold \in {0, MaxThreshold} : InitSummarize(TRUE, threshold, <<>>)
    /\ InitJsonStream([format |-> "ndjson", objects |-> <<>>])

\* json_stream called on any of the streams
InitAnyJsonStream ==
    /\ InitTaskQueue
    /\ InitSupervisor(default_max_concurrent_agents, default_max_agent_depth)
    /\ InitInbox
    /\ InitAgent(0)
    /\ InitEscalation
    /\ InitSseHandler
    /\ InitTodoList
    /\ InitTaskTools
    /\ InitLocks
    /\ InitRunChild
    /\ InitMessages({})
    /\ InitSummarize(TRUE, default_summarization_threshold, <<>>)
    /\ \E input \in JsonInputs : InitJsonStream(input)

SpecTaskQueue == Init /\ [][NextTaskQueue]_vars

SpecSupervisor == InitAnySupervisor /\ [][NextSupervisor]_vars

SpecInbox == Init /\ [][NextInbox]_vars

\* summarize_output called on any small output under any small threshold
InitAnySummarize ==
    /\ InitTaskQueue
    /\ InitSupervisor(default_max_concurrent_agents, default_max_agent_depth)
    /\ InitInbox
    /\ InitAgent(0)
    /\ InitEscalation
    /\ InitSseHandler
    /\ InitTodoList
    /\ InitTaskTools
    /\ InitLocks
    /\ InitRunChild
    /\ InitMessages({})
    /\ InitJsonStream([format |-> "ndjson", objects |-> <<>>])
    /\ \E agent \in BOOLEAN, threshold \in 0..MaxThreshold, output \in Outputs :
           InitSummarize(agent, threshold, output)

SpecSummarize == InitAnySummarize /\ [][NextSummarize]_vars

SpecLocks == Init /\ [][NextLocks]_vars

\* An agent at depth 0, or a child at depth 1 that is registered with a
\* sibling in its parent's supervisor, each with a supervisor of its own that
\* admits children
InitAnyMessages ==
    /\ InitTaskQueue
    /\ InitInbox
    /\ \E depth \in {0, MaxDepth} :
           /\ InitAgent(depth)
           /\ InitSupervisor(MaxConcurrent, depth + 1)
           /\ InitMessages(IF depth = 0 THEN {} ELSE SiblingIds)
    /\ InitEscalation
    /\ InitSseHandler
    /\ InitTodoList
    /\ InitTaskTools
    /\ InitLocks
    /\ InitRunChild
    /\ InitSummarize(TRUE, default_summarization_threshold, <<>>)
    /\ InitJsonStream([format |-> "ndjson", objects |-> <<>>])

\* A child agent's loop
SpecRunChild == Init /\ [][NextRunChild]_vars

\* An agent that spawns, checks, collects and cancels children and sends
\* messages to them and to its siblings
SpecMessages == InitAnyMessages /\ [][NextMessages]_vars

SpecAgent == InitAnyAgent /\ [][NextAgent]_vars

SpecSseHandler == Init /\ [][NextSseHandler]_vars

SpecJsonStream == InitAnyJsonStream /\ [][NextJsonStream]_vars

SpecTodoList == Init /\ [][NextTodoList]_vars

SpecTaskTools == InitAnyTaskTools /\ [][NextTaskTools]_vars

\* The runtime keeps its clock going and resumes a task whose await has resolved
SpecEscalation ==
    /\ Init /\ [][NextEscalation]_vars
    /\ WF_vars(Tick)
    /\ \A c \in EscChildren : WF_vars(EscReturn(c))

(***************************************************************************)
(* TaskQueue properties                                                    *)
(***************************************************************************)
\* Tasks reachable from the set `frontier` along blocked_by edges
RECURSIVE Reach(_, _, _)
Reach(q, frontier, seen) ==
    IF frontier \subseteq seen THEN seen
    ELSE Reach(q,
               UNION {q[x].blocked_by : x \in (frontier \ seen) \cap DOMAIN q},
               seen \cup frontier)

\* Everything task t transitively waits for
Blockers(q, t) == Reach(q, q[t].blocked_by, {})

\* C1: after any sequence of create, add_dependency, complete, fail and claim,
\* the graph of blocked_by edges has no cycle: no task transitively waits for
\* itself.
C1_Acyclic == \A t \in DOMAIN tasks : t \notin Blockers(tasks, t)

\* A chain of two edges is in the queue and add_dependency has just refused
\* the edge that would close it into a cycle of three.
C1_Witness ==
    /\ call.op = "add_dependency" /\ call.ret = "ErrCycle"
    /\ call.task_id \in DOMAIN tasks /\ call.arg \in DOMAIN tasks
    /\ call.task_id \notin tasks[call.arg].blocked_by
    /\ call.task_id \in Blockers(tasks, call.arg)

\* C2: in every reachable state, a is in b.blocked_by iff b is in a.blocks,
\* also after complete(a).
C2_Mirror ==
    \A a, b \in DOMAIN tasks : a \in tasks[b].blocked_by <=> b \in tasks[a].blocks

\* C6: complete(t) sets t Completed and returns exactly the tasks that were
\* Blocked on t alone, each once; each of them is runnable afterwards, and a
\* task that waits for t and for another blocker is not returned and stays
\* not runnable.
C6_Step ==
    (call'.op = "complete" /\ call'.task_id \in DOMAIN tasks) =>
        LET t == call'.task_id
            released == {d \in DOMAIN tasks :
                            tasks[d].status = "Blocked" /\ tasks[d].blocked_by = {t}}
        IN  /\ tasks'[t].status = "Completed"
            /\ Range(call'.ret) = released
            /\ Len(call'.ret) = Cardinality(released)
            /\ \A d \in released : is_runnable(tasks'[d])
            /\ \A d \in DOMAIN tasks :
                   (t \in tasks[d].blocked_by /\ tasks[d].blocked_by # {t}) =>
                       /\ d \notin Range(call'.ret)
                       /\ ~is_runnable(tasks'[d])
                       /\ tasks'[d].blocked_by = tasks[d].blocked_by \ {t}

C6_CompleteReleases == [][C6_Step]_vars

\* Fan-in: task 3 waited for 1 and 2, both are Completed, and the completion
\* of the second one has just returned 3.
C6_Witness ==
    /\ call.op = "complete" /\ call.ret = <<3>>
    /\ DOMAIN tasks = {1, 2, 3}
    /\ tasks[1].status = "Completed" /\ tasks[2].status = "Completed"
    /\ 3 \in tasks[1].blocks /\ 3 \in tasks[2].blocks
    /\ is_runnable(tasks[3])

\* C7: claim(task, owner) returns true exactly when the task is Pending with
\* no blockers and no owner, and then makes it InProgress with that owner;
\* otherwise it returns false and changes nothing. No task is successfully
\* claimed twice.
C7_Step ==
    call'.op = "claim" =>
        LET t == call'.task_id
        IN  IF /\ t \in DOMAIN tasks
               /\ tasks[t].status = "Pending"
               /\ tasks[t].blocked_by = {}
               /\ tasks[t].owner = None
            THEN /\ call'.ret = TRUE
                 /\ tasks' = [tasks EXCEPT ![t].status = "InProgress",
                                           ![t].owner = call'.arg]
            ELSE /\ call'.ret = FALSE
                 /\ tasks' = tasks

C7_ClaimOnce ==
    /\ [][C7_Step]_vars
    /\ [](\A t \in TaskIds : claimed[t] <= 1)

\* A claimed task became Pending again with no blockers (a dependency was
\* added to it and its blocker completed) and a second claim was refused.
C7_Witness ==
    /\ call.op = "claim" /\ call.ret = FALSE
    /\ call.task_id \in DOMAIN tasks
    /\ claimed[call.task_id] = 1
    /\ is_runnable(tasks[call.task_id])

\* C8: add_dependency(task, blocker) fails when task = blocker, when either
\* id does not exist, or when blocker already reaches task along blocked_by
\* edges, and a failing call leaves the queue as it was.
C8_Step ==
    call'.op = "add_dependency" =>
        LET t == call'.task_id
            b == call'.arg
        IN  /\ ( \/ t = b
                 \/ t \notin DOMAIN tasks
                 \/ b \notin DOMAIN tasks
                 \/ t \in Reach(tasks, {b}, {}) ) => call'.ret # "Ok"
            /\ call'.ret # "Ok" => (tasks' = tasks /\ next_id' = next_id)

C8_FailureLeavesQueue == [][C8_Step]_vars

\* The direct cycle of test_cycle_detection has just been refused.
C8_Witness ==
    /\ call.op = "add_dependency" /\ call.ret = "ErrCycle"
    /\ call.task_id \in DOMAIN tasks /\ call.arg \in DOMAIN tasks
    /\ call.task_id \in tasks[call.arg].blocked_by

\* C9: a task is Blocked iff its blocked_by is non-empty and it has not been
\* Completed or Failed; no step turns a Completed, Failed or InProgress task
\* into a Blocked one.
C9_State ==
    \A t \in DOMAIN tasks :
        tasks[t].status = "Blocked" <=>
            (tasks[t].blocked_by # {} /\ tasks[t].status \notin {"Completed", "Failed"})

C9_Keep ==
    \A t \in DOMAIN tasks :
        tasks[t].status \in {"Completed", "Failed", "InProgress"} =>
            tasks'[t].status # "Blocked"

C9_BlockedIff == []C9_State /\ [][C9_Keep]_vars

\* C10: complete(t) on a task that is already Completed returns the empty
\* list and leaves the queue unchanged.
C10_Step ==
    ( /\ call'.op = "complete"
      /\ call'.task_id \in DOMAIN tasks
      /\ tasks[call'.task_id].status = "Completed" ) =>
        (call'.ret = <<>> /\ tasks' = tasks)

C10_CompleteTwiceNoOp == [][C10_Step]_vars

\* C11: add_dependency is idempotent: in every reachable queue state and for
\* every pair (task, blocker), a second add_dependency(task, blocker) returns
\* what the first returned and leaves the queue as the first left it.
C11_Idempotent ==
    \A t \in TaskIds, b \in TaskIds :
        LET once == add_dependency(tasks, t, b)
        IN  add_dependency(once.q, t, b) = once

\* add_dependency has just added an edge to a task that already had a
\* blocker, and the same call would return Ok again.
C11_Witness ==
    /\ call.op = "add_dependency" /\ call.ret = "Ok"
    /\ Cardinality(tasks[call.task_id].blocked_by) = 2
    /\ add_dependency(tasks, call.task_id, call.arg).ret = "Ok"

\* C12: fail(t) sets the status of t to Failed and changes nothing else: every
\* other task keeps its status, owner, blocked_by and blocks, t stays in the
\* blocked_by of the tasks waiting for it, and those stay Blocked and not
\* runnable. fail of an unknown id changes nothing.
C12_Step ==
    call'.op = "fail" =>
        LET t == call'.task_id
        IN  IF t \in DOMAIN tasks
            THEN /\ DOMAIN tasks' = DOMAIN tasks
                 /\ tasks'[t] = [tasks[t] EXCEPT !.status = "Failed"]
                 /\ \A d \in DOMAIN tasks \ {t} : tasks'[d] = tasks[d]
                 /\ \A d \in DOMAIN tasks :
                        t \in tasks[d].blocked_by =>
                            /\ t \in tasks'[d].blocked_by
                            /\ ~is_runnable(tasks'[d])
                            /\ tasks[d].status = "Blocked" =>
                                   tasks'[d].status = "Blocked"
            ELSE tasks' = tasks

C12_FailFrame == [][C12_Step]_vars

\* A task that another, Blocked task waits for has just been failed.
C12_Witness ==
    /\ call.op = "fail" /\ call.task_id \in DOMAIN tasks
    /\ tasks[call.task_id].status = "Failed"
    /\ \E d \in DOMAIN tasks :
           /\ call.task_id \in tasks[d].blocked_by
           /\ tasks[d].status = "Blocked"

(***************************************************************************)
(* Supervisor properties                                                   *)
(***************************************************************************)
\* C3: the supervisor never holds more than max_concurrent handles, none
\* deeper than max_depth; register on a full supervisor or with
\* depth > max_depth returns an error and leaves the handle map unchanged.
C3_State ==
    /\ Cardinality(DOMAIN handles) <= max_concurrent
    /\ \A id \in DOMAIN handles : handles[id].depth <= max_depth

C3_Step ==
    ( /\ sup_call'.op = "register"
      /\ \/ Cardinality(DOMAIN handles) >= max_concurrent
         \/ sup_call'.depth > max_depth ) =>
        (sup_call'.ret # "Ok" /\ handles' = handles)

C3_CapacityAndDepth == []C3_State /\ [][C3_Step]_vars

\* A supervisor holding max_concurrent = 2 handles has just refused a third.
C3_Witness ==
    /\ sup_call.op = "register" /\ sup_call.ret = "ErrAtCapacity"
    /\ max_concurrent = 2
    /\ Cardinality(DOMAIN handles) = 2
    /\ sup_call.id \notin DOMAIN handles

(***************************************************************************)
(* Inbox properties                                                        *)
(***************************************************************************)
\* Priority classes of the payloads: shutdown, task lifecycle, text
Rank(payload) ==
    IF payload \in {"ShutdownRequest", "ShutdownApproved"} THEN 0
    ELSE IF payload = "TaskCompleted" THEN 1 ELSE 2

Ns(s) == {s[i].n : i \in DOMAIN s}

\* s is ordered by priority class and, within a class, by order of delivery
Ordered(s) ==
    \A i, j \in DOMAIN s :
        i < j => \/ Rank(s[i].payload) < Rank(s[j].payload)
                 \/ Rank(s[i].payload) = Rank(s[j].payload) /\ s[i].n < s[j].n

\* C4: drain takes every buffered envelope and leaves the inbox empty, and
\* returns exactly the taken envelopes, shutdown payloads first, then
\* TaskCompleted, then Text, each class in order of delivery.
C4_Step ==
    \A th \in Drainers :
        /\ (pc[th] = "lock" /\ pc'[th] = "sort") =>
               (msgs'[th] = messages /\ messages' = <<>>)
        /\ (pc[th] = "sort" /\ pc'[th] = "idle") =>
               /\ Len(result') = Len(msgs[th])
               /\ Ns(result') = Ns(msgs[th])
               /\ Range(result') = Range(msgs[th])

C4_DrainOrdered ==
    /\ []Ordered(result)
    /\ [][C4_Step]_vars

\* A drain returned three envelopes, moving a control message in front of an
\* earlier one and keeping two of the same class in order of delivery.
C4_Witness ==
    /\ Len(result) = 3
    /\ result[1].n > result[2].n
    /\ Rank(result[2].payload) = Rank(result[3].payload)
    /\ messages = <<>>

\* Where envelope n is: in the buffer, in the hands of a running drain, or
\* in what drains have returned
Copies(n) ==
    LET held[k \in 0..NumDrainers] ==
            IF k = 0 THEN 0 ELSE held[k - 1] + Occurrences(msgs[k], n)
    IN  Occurrences(messages, n) + held[NumDrainers] + returned[n]

\* C5: under any interleaving of deliver and drain calls, every delivered
\* envelope is in exactly one place (still buffered, or taken and returned
\* by exactly one drain), and a drain takes every envelope delivered before
\* it takes the lock, so also every envelope delivered before it was called,
\* unless another drain has taken that envelope first; it returns what it
\* took.
C5_Step ==
    \A th \in Drainers :
        /\ (pc[th] = "lock" /\ pc'[th] = "sort") =>
               \A n \in 1..delivered :
                   \/ n \in Ns(msgs'[th])
                   \/ returned[n] > 0
                   \/ \E o \in Drainers \ {th} : n \in Ns(msgs[o])
        /\ (pc[th] = "sort" /\ pc'[th] = "idle") =>
               Ns(result') = Ns(msgs[th])

C5_ExactlyOnce ==
    /\ [](\A n \in 1..delivered : Copies(n) = 1)
    /\ [][C5_Step]_vars

\* Deliveries and drains overlap: one envelope has been returned by a drain,
\* a running drain holds a later one it has taken, and a third has been
\* delivered behind it and is still buffered.
C5_Witness ==
    /\ \E n \in 1..delivered : returned[n] = 1
    /\ messages # <<>>
    /\ \E th \in Drainers : pc[th] = "sort" /\ msgs[th] # <<>>

(***************************************************************************)
(* Agent tool properties                                                   *)
(***************************************************************************)
\* a tool call starts in this step
Starts(op) == tool'.n = tool.n + 1 /\ tool'.op = op

\* C13: agent__spawn called while the supervisor already holds max_concurrent
\* handles, or by an agent whose depth + 1 exceeds max_depth, returns at once
\* with status "error"; no child task is started and the handle map is unchanged.
C13_Step ==
    (/\ Starts("spawn")
     /\ \/ Cardinality(DOMAIN handles) >= max_concurrent
        \/ current_depth + 1 > max_depth)
    => /\ tool'.status = "error"
       /\ agent_pc'.at = "idle"
       /\ children' = children
       /\ handles' = handles

C13_SpawnRejected == [][C13_Step]_vars

\* a spawn was rejected by a supervisor that is full with max_concurrent = 2
\* handles, although the caller's depth would allow a child
C13_Witness ==
    /\ tool.op = "spawn" /\ tool.status = "error"
    /\ max_concurrent = 2
    /\ Cardinality(DOMAIN handles) = max_concurrent
    /\ current_depth + 1 <= max_depth

C14_Step ==
    /\ (Starts("check") /\ tool'.status = "completed")
       => /\ agent_pc'.at = "idle"
          /\ tool'.id \in DOMAIN handles /\ handles[tool'.id].finished
          /\ children[tool'.id].state = "ended"
          /\ tool'.exit_status = children[tool'.id].exit_status
          /\ tool'.id \notin DOMAIN handles'
    /\ (/\ Starts("collect")
        /\ tool.op = "check" /\ tool.status = "completed" /\ tool.id = tool'.id)
       => /\ tool'.status = "error"
          /\ agent_pc'.at = "idle"

C15_CancelledExit ==
    \A id \in DOMAIN children :
        (children[id].state = "ended" /\ children[id].ended_aborted)
        => children[id].exit_status = "Cancelled"

(***************************************************************************)
(* Escalation properties                                                   *)
(***************************************************************************)
\* the user__ call of child c returns in this step
Returns(c) == esc_child[c].at = "waiting" /\ esc_child'[c].at = "running"

\* the results handle_escalated returns as Ok values
EscResults == {"answer", "cancelled", "timed_out"}

\* C16: an escalated user__ call of a child (depth > 0) returns one of the
\* structured results and never an error of the tool call; while nobody has
\* replied to or dropped the request it returns only once ESCALATION_TIMEOUT
\* seconds have passed, and then with the timed out {error, fallback}; and
\* every such call does return, after which the child is running again.
C16_Step ==
    \A c \in EscChildren :
        Returns(c) =>
            /\ esc_child'[c].result \in EscResults
            /\ reply_chan[esc_child[c].id] = "open"
               <=> esc_child'[c].result = "timed_out"
            /\ esc_child'[c].result = "timed_out"
               => esc_child[c].waited >= ESCALATION_TIMEOUT

C17_Step ==
    \A c \in EscChildren :
        (Returns(c) /\ reply_chan[esc_child[c].id] = "dropped")
        => esc_child'[c].result = "cancelled"

C17_DroppedCancels ==
    /\ [][C17_Step]_vars
    /\ \A c \in EscChildren :
           (esc_child[c].at = "waiting" /\ reply_chan[esc_child[c].id] = "dropped")
           ~> (esc_child[c].at = "running" /\ esc_child[c].result = "cancelled")

\* a child was released by a drop before its timeout
C17_Witness ==
    \E c \in EscChildren :
        /\ esc_child[c].at = "running" /\ esc_child[c].result = "cancelled"
        /\ esc_child[c].waited < ESCALATION_TIMEOUT
        /\ taken[esc_child[c].id] = 1
        /\ esc_child[c].id \notin esc_held

\* ids of the requests submitted so far
Submitted == DOMAIN reply_chan

\* C18: over all interleavings of submit and take, no request is returned by
\* more than one take, a take of an id that a take has already returned gives
\* none, a take returns a request exactly when it is in the queue and removes
\* it, and has_pending is true exactly when some submitted request has not
\* been taken.
C18_State ==
    /\ \A id \in EscIds : taken[id] <= 1
    /\ has_pending(pending) <=> \E id \in Submitted : taken[id] = 0
    /\ DOMAIN pending = {id \in Submitted : taken[id] = 0}

C18_Step ==
    esc_call'.op = "take" =>
        LET id == esc_call'.id
        IN  /\ esc_call'.ret = "Some" <=> (id \in Submitted /\ taken[id] = 0)
            /\ taken[id] >= 1 => esc_call'.ret = None
            /\ id \notin DOMAIN pending'
            /\ \A i \in DOMAIN pending \ {id} :
                   i \in DOMAIN pending' /\ pending'[i] = pending[i]

C18_TakeOnce == [][C18_Step /\ C18_State']_vars

\* a second take of an id returned none while another request is pending
C18_Witness ==
    /\ esc_call.op = "take" /\ esc_call.ret = None
    /\ taken[esc_call.id] = 1
    /\ has_pending(pending)

(***************************************************************************)
(* Tool-call loop detection properties                                     *)
(***************************************************************************)
\* two calls are the same call: equal name and equal arguments
SameCall(c1, c2) == c1.name = c2.name /\ c1.arguments = c2.arguments

\* what a loop message shows of a call
Shown(c) == [name |-> c.name, arguments |-> c.arguments]

\* C19: with max_call_repeats = 2 and call_repeat_chain_len = 3, a fresh
\* handler fed the same call (equal name and arguments) again and again accepts
\* the first three and rejects the fourth; the error message then contains
\* "Call loop detected", names the call and lists the chain of the three
\* recorded calls.
C19_FourthRejected ==
    (/\ Len(fed) \in 1..4
     /\ \A i \in 1..Len(fed) : SameCall(fed[i], fed[1]))
    => /\ \A i \in 1..Len(fed) : verdicts[i] = (IF i <= 3 THEN "Ok" ELSE "Err")
       /\ Len(fed) = 4
          => /\ message.heading = "Call loop detected!"
             /\ message.repeating = Shown(fed[4])
             /\ message.chain = <<Shown(fed[1]), Shown(fed[2]), Shown(fed[3])>>
             /\ tool_calls = SubSeq(fed, 1, 3)

\* the fourth of four equal calls, not all with the same id, was rejected
C19_Witness ==
    /\ Len(fed) = 4
    /\ \A i \in 1..4 : SameCall(fed[i], fed[1])
    /\ fed[2] # fed[1]
    /\ verdicts[4] = "Err"

\* C20: of a sequence of calls in which no call is the same call (equal name
\* and arguments) as the one before it, however long, none is rejected.
C20_NoMatchAccepted ==
    (\A i \in 2..Len(fed) : ~SameCall(fed[i - 1], fed[i]))
    => /\ \A i \in 1..Len(fed) : verdicts[i] = "Ok"
       /\ tool_calls = fed

\* seven calls, more than the history holds, that alternate between two calls
\* of the same name were all accepted
C20_Witness ==
    /\ Len(fed) = 7
    /\ \A i \in 2..Len(fed) : ~SameCall(fed[i - 1], fed[i])
    /\ \A i \in 1..Len(fed) : fed[i].name = "f" /\ verdicts[i] = "Ok"
    /\ Len(last_tool_calls) = call_repeat_chain_len * max_call_repeats

\* C21 as stated: whatever the history, an incoming call is rejected when the
\* last max_call_repeats recorded calls are all the same call as it.
C21_Step ==
    LET n == Len(last_tool_calls)
        new_call == fed'[Len(fed')]
    IN  (/\ Len(fed') = Len(fed) + 1
         /\ n >= max_call_repeats
         /\ \A i \in (n - max_call_repeats + 1)..n :
                SameCall(last_tool_calls[i], new_call))
        => verdicts'[Len(fed')] = "Err"

C21_RepeatsRejected == [][C21_Step]_vars

\* the calls tool_call has accepted, in the order it accepted them
RECURSIVE AcceptedUpTo(_)
AcceptedUpTo(k) ==
    IF k = 0 THEN <<>>
    ELSE IF verdicts[k] = "Ok" THEN Append(AcceptedUpTo(k - 1), fed[k])
         ELSE AcceptedUpTo(k - 1)

Accepted == AcceptedUpTo(Len(fed))

\* the last k elements of s, or all of s when it has fewer
LastOf(s, k) == SubSeq(s, IF Len(s) > k THEN Len(s) - k + 1 ELSE 1, Len(s))

\* C22: after any sequence of tool_call invocations the history holds at most
\* max_call_repeats * call_repeat_chain_len = 6 entries, and they are the most
\* recently accepted calls, oldest first.
C22_History ==
    /\ Len(last_tool_calls) <= max_call_repeats * call_repeat_chain_len
    /\ max_call_repeats * call_repeat_chain_len = 6
    /\ last_tool_calls = LastOf(Accepted, max_call_repeats * call_repeat_chain_len)

\* a seventh accepted call has evicted the first, after a rejected call
C22_Witness ==
    /\ Len(Accepted) = 7
    /\ Len(last_tool_calls) = 6
    /\ last_tool_calls[1] = Accepted[2]
    /\ Accepted[1] # Accepted[2]
    /\ \E i \in 1..Len(fed) : verdicts[i] = "Err"

(***************************************************************************)
(* JSON stream parser properties                                           *)
(***************************************************************************)
\* the top-level objects of the stream read, in order
OriginalObjects == [k \in 1..Len(js_input.objects) |-> JsonObjects[js_input.objects[k]]]

\* C23: however the bytes of an NDJSON stream or of a JSON array of objects
\* are split into chunks, the callback is called with the original top-level
\* objects, once each and in order: what it has been given is at every moment
\* a prefix of them, and all of them when json_stream has returned. Two
\* splittings of one stream therefore give the same sequence.
C23_ChunkIndependent ==
    /\ Len(emitted) <= Len(OriginalObjects)
    /\ emitted = SubSeq(OriginalObjects, 1, Len(emitted))
    /\ js_done => emitted = OriginalObjects

\* a JSON array of two objects came through chunks that ended inside a char of
\* two bytes, inside a string, after a backslash and inside an object
C23_Witness ==
    /\ js_done
    /\ js_input.format = "array"
    /\ Len(js_input.objects) = 2
    /\ js_cuts = {"char", "string", "escape", "object"}
    /\ Len(emitted) = 2

(***************************************************************************)
(* TodoList properties                                                     *)
(***************************************************************************)
\* C24: after any sequence of new, add and mark_done, completed_count plus
\* incomplete_count is the number of items and the ids of the items are
\* 1, 2, 3, ... in list order (strictly increasing from 1, none twice); a
\* mark_done of an id that is not in the list returns false and leaves the
\* list as it was.
C24_State ==
    /\ completed_count(todos) + incomplete_count(todos) = Len(todos)
    /\ \A i \in DOMAIN todos : todos[i].id = i
    /\ \A i, j \in DOMAIN todos : i < j => todos[i].id < todos[j].id

C24_Step ==
    /\ (todo_call'.op = "mark_done" /\ \A i \in DOMAIN todos : todos[i].id # todo_call'.id)
       => (todo_call'.ret = FALSE /\ todos' = todos)
    /\ (todo_call'.op = "mark_done" /\ \E i \in DOMAIN todos : todos[i].id = todo_call'.id)
       => todo_call'.ret = TRUE
    /\ todo_call'.op = "add" => todo_call'.ret = Len(todos) + 1

C24_TodoList == [][C24_Step /\ C24_State']_vars

\* an id that is not in a list of three items, one of them done, was refused
C24_Witness ==
    /\ todo_call.op = "mark_done" /\ todo_call.ret = FALSE
    /\ todo_call.id > Len(todos)
    /\ Len(todos) = 3
    /\ completed_count(todos) = 1 /\ incomplete_count(todos) = 2

(***************************************************************************)
(* Task tool properties                                                    *)
(***************************************************************************)
\* the tasks of a list of dispatch entries, in order
TasksOf(entries) == [i \in DOMAIN entries |-> entries[i].task]

\* the task carries an agent and a prompt
HasPayload(id) ==
    /\ id \in DOMAIN dispatch
    /\ dispatch[id].dispatch_agent # None
    /\ dispatch[id].prompt # None

\* a task tool returns in this step
ToolReturns(op) == tt_call'.seq # tt_call.seq /\ tt_call'.op = op

\* caller c's handle_task_complete leaves its locked block in this step
LeavesBlock(c) ==
    /\ tc[c].at = "idle"
    /\ \/ tc'[c].at = "spawn"
       \/ ToolReturns("task_complete") /\ tt_call'.caller = c

\* the entries caller c's handle_task_complete has pushed on `spawned` after
\* this step
SpawnedAfter(c) ==
    IF ToolReturns("task_complete") /\ tt_call'.caller = c
    THEN tt_call'.auto_dispatched
    ELSE tc'[c].spawned

\* C25, the step: a task_complete that leaves its locked block has claimed
\* every newly runnable task with an agent and a prompt as "auto:<agent>" and
\* put exactly those on its dispatch list, and has called no spawn yet; a
\* spawn is attempted only in a later step, which leaves the queue alone; and
\* the id of an entry with status "ok" is registered in the supervisor when
\* the entry is made.
C25_Step ==
    \A c \in Callers :
        /\ LeavesBlock(c) =>
              LET nr == IF tc'[c].at = "spawn" THEN tc'[c].newly_runnable
                        ELSE tt_call'.newly_runnable
                  due == SelectSeq(nr, HasPayload)
              IN  /\ TasksOf(tc'[c].dispatchable) = due
                  /\ \A i \in DOMAIN due :
                         /\ tasks'[due[i]].owner = auto_owner(dispatch[due[i]].dispatch_agent)
                         /\ tasks'[due[i]].status = "InProgress"
                  /\ attempts' = attempts
        /\ attempts' # attempts => tasks' = tasks
        /\ Len(SpawnedAfter(c)) > Len(tc[c].spawned) =>
              LET e == SpawnedAfter(c)[Len(SpawnedAfter(c))]
              IN  e.status = "ok" => e.id \in DOMAIN handles'
        /\ ToolReturns("task_complete") /\ tt_call'.caller = c =>
              /\ TasksOf(tt_call'.auto_dispatched) = TasksOf(tc[c].dispatchable)
                 \/ tc[c].at = "idle"
              /\ \A i \in DOMAIN tt_call'.auto_dispatched :
                     attempts'[tt_call'.auto_dispatched[i].task] = 1

\* C25, the state: no task has had more than one spawn attempt, and a task
\* that had one is owned by "auto:<its agent>".
C25_State ==
    \A t \in TaskIds :
        /\ attempts[t] <= 1
        /\ attempts[t] = 1 =>
              /\ HasPayload(t)
              /\ tasks[t].owner = auto_owner(dispatch[t].dispatch_agent)

\* C25: when agent__task_complete makes tasks newly runnable, each of them that
\* has a dispatch agent and a prompt is claimed as "auto:<agent>" inside the
\* locked block and gets exactly one spawn attempt after it; over any
\* interleaving of task_complete calls no task is dispatched more than once;
\* and on a successful spawn the returned agent id is registered.
C25_AutoDispatch == [][C25_Step /\ C25_State']_vars

\* Two task_complete calls run side by side, each with a claimed task to
\* dispatch; one has returned an entry whose agent is registered while the
\* other is still in its spawn.
C25_Witness ==
    /\ tt_call.op = "task_complete"
    /\ \E i \in DOMAIN tt_call.auto_dispatched :
           /\ tt_call.auto_dispatched[i].status = "ok"
           /\ tt_call.auto_dispatched[i].id \in DOMAIN handles
    /\ \E c \in Callers : c # tt_call.caller /\ tc[c].at # "idle"

\* C26: a failed auto-dispatch spawn (at capacity, depth exceeded, or an agent
\* initialisation error) never makes agent__task_complete fail: each return
\* has status "ok", the completed task is Completed, every entry of the
\* dispatch list has its entry in auto_dispatched in order, failed or not.
C26_Step ==
    ToolReturns("task_complete") =>
        LET c == tt_call'.caller
        IN  /\ tt_call'.status = "ok"
            /\ tt_call'.task_id \in DOMAIN tasks' =>
                   tasks'[tt_call'.task_id].status = "Completed"
            /\ tc[c].at # "idle" =>
                   TasksOf(tt_call'.auto_dispatched) = TasksOf(tc[c].dispatchable)
            /\ \A i \in DOMAIN tt_call'.auto_dispatched :
                   tt_call'.auto_dispatched[i].status \in {"ok", "error"}

C26_SpawnFailureReported == [][C26_Step]_vars

\* A task_complete has returned two entries: the first spawn failed, the
\* second, attempted after it, succeeded.
C26_Witness ==
    /\ tt_call.op = "task_complete" /\ tt_call.status = "ok"
    /\ Len(tt_call.auto_dispatched) = 2
    /\ tt_call.auto_dispatched[1].status = "error"
    /\ tt_call.auto_dispatched[2].status = "ok"
    /\ tasks[tt_call.task_id].status = "Completed"

\* C27, the step: a task_create with an "agent" and no "prompt" fails and
\* leaves the queue as it was, next id included.
C27_Step ==
    /\ ToolReturns("task_create")
    /\ tt_call'.args.agent # None
    /\ tt_call'.args.prompt = None
    => /\ tt_call'.status = "Err"
       /\ tasks' = tasks /\ next_id' = next_id /\ dispatch' = dispatch

\* C27, the state: every task with a dispatch agent has a prompt.
C27_State ==
    \A t \in DOMAIN tasks : dispatch[t].dispatch_agent # None => dispatch[t].prompt # None

\* C27: agent__task_create called with an "agent" but without a "prompt" fails,
\* creates no task and consumes no id; hence every task in the queue that has
\* a dispatch agent also has a prompt.
C27_AgentNeedsPrompt == [][C27_Step /\ C27_State']_vars

\* A task_create with an agent and no prompt has failed on a queue that holds
\* a task with an agent.
C27_Witness ==
    /\ tt_call.op = "task_create" /\ tt_call.status = "Err"
    /\ tt_call.args.agent # None /\ tt_call.args.prompt = None
    /\ \E t \in DOMAIN tasks : dispatch[t].dispatch_agent # None

(***************************************************************************)
(* summarize_output and collect properties                                 *)
(***************************************************************************)
\* C29: agent__collect returns the child's output verbatim when its length
\* does not exceed summarization_threshold, and the summariser's text only when
\* the length strictly exceeds the threshold (the length taken as str::len
\* takes it, in bytes).
C29_Verbatim ==
    /\ sm_result.kind = "summary" => str_len(sm_output) > sm_threshold
    /\ (sm_result.kind # None /\ str_len(sm_output) <= sm_threshold)
       => sm_result.kind = "verbatim"

\* C30: a child whose turn raised an error ends with exit_status Failed, and
\* the agent__collect or agent__check that takes its result returns a normal
\* result object carrying that exit status, not an error.
C30_Step ==
    /\ \A id \in DOMAIN children :
           (children[id].state = "running" /\ children'[id].state = "ended")
           => children'[id].exit_status \in {"Completed", "Failed"}
    /\ \A id \in DOMAIN children :
           (/\ children[id].state = "ended" /\ children[id].exit_status = "Failed"
            /\ tool' # tool /\ tool'.id = id /\ tool'.op \in {"check", "collect"}
            /\ tool'.status \notin {"awaiting", "error"})
           => /\ tool'.status = "completed"
              /\ tool'.exit_status = "Failed"

C30_FailedChildCollected == [][C30_Step]_vars

(***************************************************************************)
(* Lock scope properties                                                   *)
(***************************************************************************)
\* task t is suspended at an await
Suspended(t) == Running(t) /\ LockOp(t).op = "await"

\* C28: no tool handler holds a guard of the shared-state lock or of the
\* Supervisor lock while it is suspended at an await (use_agent in spawn, the
\* join handle in collect, the summarisation call, the spawns of
\* task_complete); so while the parent is suspended, a sibling that asks for
\* the Supervisor lock in its send_message is given it.
C28_NoLockAcrossAwait ==
    /\ \A t \in LockTasks : Suspended(t) => lk_held[t] = {}
    /\ \A t \in LockTasks :
           \A u \in LockTasks \ {t} :
               (Suspended(t) /\ Running(u) /\ LockOp(u).op = "acq")
               => Available(LockOp(u).on, lk_held)

\* The parent is suspended in collect on a child that still runs, and the
\* sibling holds the Supervisor's read guard in its send_message.
C28_Witness ==
    /\ Suspended("parent") /\ LockOp("parent").on = "join"
    /\ lk_child = "running"
    /\ "sup.read" \in lk_held["sibling"]

(***************************************************************************)
(* Inbox properties: drain on an empty inbox                               *)
(***************************************************************************)
\* C31: a drain that finds the inbox empty returns the empty list and leaves
\* it empty; right after any drain has taken the buffer pending_count is 0,
\* and only a delivery makes it non-zero again, so a second drain with no
\* delivery in between returns the empty list.
C31_Step ==
    /\ \A th \in Drainers :
           /\ (pc[th] = "lock" /\ pc'[th] = "sort") =>
                  /\ pending_count(messages') = 0
                  /\ pending_count(messages) = 0 => msgs'[th] = <<>>
           /\ (pc[th] = "sort" /\ pc'[th] = "idle") =>
                  (msgs[th] = <<>> => result' = <<>>)
    /\ (pending_count(messages) = 0 /\ pending_count(messages') # 0)
       => delivered' = delivered + 1

C31_DrainEmpty == [][C31_Step]_vars

\* Every delivered envelope has been returned by a drain, and the drain that
\* returned last found the inbox empty and returned the empty list.
C31_Witness ==
    /\ delivered > 0
    /\ \A n \in 1..delivered : returned[n] = 1
    /\ \A th \in Drainers : pc[th] = "idle"
    /\ result = <<>>
    /\ pending_count(messages) = 0

(***************************************************************************)
(* Tool-call loop detection properties: chains and rejected calls          *)
(***************************************************************************)
\* C33 as stated: once A, B, C, A, B, C (three different calls) have been
\* accepted a further A is rejected, and a sequence that alternates between
\* two different calls has a rejected call by the time it is longer than the
\* history.
C33_ChainRejected ==
    /\ (/\ Len(fed) = 2 * call_repeat_chain_len + 1
        /\ \A i \in 1..call_repeat_chain_len, j \in 1..call_repeat_chain_len :
               i # j => ~SameCall(fed[i], fed[j])
        /\ \A i \in (call_repeat_chain_len + 1)..Len(fed) :
               SameCall(fed[i], fed[i - call_repeat_chain_len])
        /\ \A i \in 1..(2 * call_repeat_chain_len) : verdicts[i] = "Ok")
       => verdicts[Len(fed)] = "Err"
    /\ (/\ Len(fed) > max_call_repeats * call_repeat_chain_len
        /\ ~SameCall(fed[1], fed[2])
        /\ \A i \in 3..Len(fed) : SameCall(fed[i], fed[i - 2]))
       => \E i \in 1..Len(fed) : verdicts[i] = "Err"

\* C34: a tool_call that is rejected as a loop leaves last_tool_calls and
\* tool_calls exactly as they were before the call.
C34_Step ==
    (/\ Len(fed') = Len(fed) + 1
     /\ verdicts'[Len(fed')] = "Err")
    => /\ last_tool_calls' = last_tool_calls
       /\ tool_calls' = tool_calls

C34_RejectedNotRecorded == [][C34_Step]_vars

\* a call was rejected, and a call fed after it was accepted and recorded
C34_Witness ==
    \E i \in 1..Len(fed) :
        /\ verdicts[i] = "Err"
        /\ i < Len(fed)
        /\ verdicts[Len(fed)] = "Ok"
        /\ Len(tool_calls) = Len(fed) - 1
        /\ tool_calls[Len(tool_calls)] = fed[Len(fed)]

(***************************************************************************)
(* Agent tool properties: running children and capacity                    *)
(***************************************************************************)
\* the child tasks that were started and have not ended
RunningChildren == {id \in DOMAIN children : children[id].state = "running"}

\* C36 as stated: the number of child tasks started and not yet ended never
\* exceeds max_concurrent.
C36_RunningWithinCapacity == Cardinality(RunningChildren) <= max_concurrent

(***************************************************************************)
(* Task tool properties: blockers and failed auto-dispatch                 *)
(***************************************************************************)
\* C37 as stated: no task's blocked_by contains a Completed task, so a task
\* that agent__task_create made with only Completed blockers is not Blocked.
C37_NoCompletedBlocker ==
    \A t \in DOMAIN tasks :
        /\ \A b \in tasks[t].blocked_by \cap DOMAIN tasks :
               tasks[b].status # "Completed"
        /\ (/\ tasks[t].blocked_by # {}
            /\ \A b \in tasks[t].blocked_by :
                   b \in DOMAIN tasks /\ tasks[b].status = "Completed")
           => tasks[t].status # "Blocked"

\* the entry a step has pushed on caller c's `spawned`, failed
FailedEntry(c) ==
    /\ Len(SpawnedAfter(c)) > Len(tc[c].spawned)
    /\ SpawnedAfter(c)[Len(SpawnedAfter(c))].status = "error"

\* C38, the step: a spawn that fails for a claimed task leaves the queue and
\* the supervisor's handles as they are; the task is owned by "auto:<agent>"
\* and InProgress, or Completed when a task_complete for this very task ran
\* between the claim and the failure.
C38_Step ==
    \A c \in Callers :
        FailedEntry(c) =>
            LET t == SpawnedAfter(c)[Len(SpawnedAfter(c))].task
            IN  /\ tasks' = tasks
                /\ handles' = handles
                /\ tasks'[t].status \in {"InProgress", "Completed"}
                /\ tasks'[t].status = "Completed" => attempts'[t] = 1
                /\ tasks'[t].owner = auto_owner(dispatch[t].dispatch_agent)

\* C38, the state: a task that had its spawn attempt is never Pending again,
\* is not runnable, cannot be claimed by anyone, and gets no second attempt.
C38_State ==
    \A t \in TaskIds :
        attempts[t] >= 1 =>
            /\ t \in DOMAIN tasks
            /\ tasks[t].status # "Pending"
            /\ ~is_runnable(tasks[t])
            /\ \A owner \in Owners \cup {auto_owner(a) : a \in DispatchAgents} :
                   ~claim(tasks, t, owner).ret
            /\ attempts[t] = 1

\* C38: when an auto-dispatch spawn fails after its task was claimed, the task
\* is left InProgress with owner "auto:<agent>" and no agent is registered for
\* it; it is not returned to Pending, is not runnable, and cannot be claimed or
\* auto-dispatched again.
C38_FailedDispatchKeepsClaim == [][C38_Step /\ C38_State']_vars

\* A task_complete has returned a failed entry; its task is InProgress under
\* the auto owner, no agent is registered, and a later task_complete of
\* another task has returned since.
C38_Witness ==
    \E t \in DOMAIN tasks :
        /\ attempts[t] = 1
        /\ tasks[t].status = "InProgress"
        /\ tasks[t].owner = auto_owner(dispatch[t].dispatch_agent)
        /\ handles = <<>>
        /\ next_agent = 1
        /\ \A c \in Callers : tc[c].at = "idle"
        /\ tt_call.op = "task_complete"
        /\ tt_call.task_id # t
        /\ t \notin Range(tt_call.newly_runnable)

(***************************************************************************)
(* Escalation properties: requests of calls that have returned             *)
(***************************************************************************)
\* C39 as stated: every request the root queue reports belongs to a child
\* whose user__ call is still waiting; once the call has returned, however it
\* resolved, has_pending and pending_summary no longer report the request.
C39_QueuedOnlyWhileWaiting ==
    /\ \A id \in DOMAIN pending :
           \E c \in EscChildren : esc_child[c].at = "waiting" /\ esc_child[c].id = id
    /\ has_pending(pending) => \E c \in EscChildren : esc_child[c].at = "waiting"

(***************************************************************************)
(* Child agent loop properties                                             *)
(***************************************************************************)
\* the texts of s with sep between every two of them
RECURSIVE JoinWith(_, _)
JoinWith(s, sep) ==
    IF s = <<>> THEN <<>>
    ELSE IF Len(s) = 1 THEN s[1]
    ELSE s[1] \o <<sep>> \o JoinWith(Tail(s), sep)

\* the non-empty outputs of the turns so far, in turn order
NonEmptyOutputs(turns) ==
    LET kept == SelectSeq(turns, LAMBDA t : t.output # <<>>)
    IN  [i \in DOMAIN kept |-> kept[i].output]

\* C32: a turn that yields tool results is followed by another turn; the loop
\* ends at the first turn whose tool results are empty, and the child then
\* finishes with exit_status Completed and the non-empty turn outputs, in turn
\* order, joined by a single newline. After its end there is no further turn.
C32_Step ==
    /\ Len(rc_turns') = Len(rc_turns) + 1 =>
          LET turn == rc_turns'[Len(rc_turns')]
          IN  /\ rc_pc = "loop"
              /\ \A i \in DOMAIN rc_turns : rc_turns[i].tool_results > 0
              /\ turn.tool_results > 0 =>
                     /\ rc_pc' = "loop"
                     /\ rc_result'.exit_status = None
              /\ turn.tool_results = 0 =>
                     /\ rc_pc' = "done"
                     /\ rc_result'.exit_status = "Completed"
                     /\ rc_result'.output = JoinWith(NonEmptyOutputs(rc_turns'), NL)
    /\ rc_pc # "loop" => UNCHANGED rc_vars
    /\ rc_result'.exit_status = "Completed" =>
          /\ rc_turns' # <<>>
          /\ rc_turns'[Len(rc_turns')].tool_results = 0

C32_LoopEndsOnEmptyResults == [][C32_Step]_vars

\* The child has ended after three turns: the first gave a text and tool
\* results, the second tool results and no text, the third another text and
\* no tool results.
C32_Witness ==
    /\ rc_pc = "done"
    /\ Len(rc_turns) = 3
    /\ rc_turns[1].output # <<>>
    /\ rc_turns[2].output = <<>>
    /\ rc_turns[3].output # <<>>
    /\ rc_turns[3].output # rc_turns[1].output
    /\ rc_result.exit_status = "Completed"
    /\ rc_result.output = rc_turns[1].output \o <<NL>> \o rc_turns[3].output

(***************************************************************************)
(* Agent tool properties: a result is handed over once; messages           *)
(***************************************************************************)
\* a child that was registered and whose handle has been taken
Gone(id) == id \in DOMAIN children /\ id \notin DOMAIN handles

\* the tools that look a child up by its id
LookupTools == {"check", "collect", "cancel", "send_message"}

\* C35, the step: a check that reports completed, a collect that finds the
\* child and a cancel that succeeds leave the id unregistered and a slot free;
\* the collect still has no handle when it returns; a handle once taken is
\* never registered again; and a check, collect, cancel or send_message for a
\* child whose handle was taken returns the not-found error and changes
\* neither the handles nor an inbox.
C35_Step ==
    /\ (\/ Starts("check") /\ tool'.status = "completed"
        \/ Starts("collect") /\ tool'.status = "awaiting"
        \/ Starts("cancel") /\ tool'.status = "ok")
       => /\ tool'.id \in DOMAIN handles
          /\ tool'.id \notin DOMAIN handles'
          /\ spawn_gate(handles', max_concurrent, max_depth, current_depth) # "AtCapacity"
    /\ (tool.op = "collect" /\ tool.status = "awaiting" /\ tool'.status # "awaiting")
       => /\ tool'.id = tool.id
          /\ tool.id \in DOMAIN children' /\ tool.id \notin DOMAIN handles'
    /\ \A id \in AgentIds : Gone(id) => Gone(id)'
    /\ \A op \in LookupTools :
           (Starts(op) /\ Gone(tool'.id))
           => /\ tool'.status = "error"
              /\ agent_pc'.at = "idle"
              /\ handles' = handles
              /\ inboxes' = inboxes

\* C35: a child's result is handed to its parent at most once: once
\* agent__check has reported completed, agent__collect has returned or
\* agent__cancel has succeeded for an id, the id is no longer registered, its
\* capacity slot is free, and every later agent__check, agent__collect,
\* agent__cancel or agent__send_message for it returns a not-found error.
C35_HandedOverOnce == [][C35_Step]_vars

\* a check reported a child completed, and a send_message to that child, the
\* next call, has returned the not-found error
C35_Witness ==
    /\ tool.op = "send_message" /\ tool.status = "error"
    /\ tool.prev.op = "check" /\ tool.prev.status = "completed"
    /\ tool.prev.id = tool.id
    /\ Gone(tool.id)

\* the Text envelope a send makes
TextEnvelope(from, to, text) ==
    [from |-> from, to |-> to, payload |-> [kind |-> "Text", content |-> text]]

\* C40: agent__send_message(id, message) appends exactly one Text envelope
\* with that message to the inbox of the agent registered under id in the
\* sender's own supervisor, or else in the sender's parent supervisor, and
\* changes no other inbox; when id is registered in neither it returns status
\* "error" and no inbox changes. No other tool of the sender changes an inbox.
C40_Step ==
    IF Starts("send_message")
    THEN LET id == tool'.id
         IN  IF id \in DOMAIN handles \/ id \in parent_handles
             THEN /\ tool'.status = "ok"
                  /\ inboxes'[id] = inboxes[id]
                                    \o <<TextEnvelope(sender(current_depth), id, tool'.text)>>
                  /\ \A other \in DOMAIN inboxes \ {id} : inboxes'[other] = inboxes[other]
             ELSE /\ tool'.status = "error"
                  /\ inboxes' = inboxes
    ELSE inboxes' = inboxes

C40_SendMessageRouted == [][C40_Step]_vars

\* a child with a child of its own has sent one message to that child and
\* another to a sibling registered in its parent's supervisor
C40_Witness ==
    \E c \in DOMAIN handles, s \in parent_handles \ {self_agent_id(current_depth)} :
        /\ Len(inboxes[c]) = 1
        /\ Len(inboxes[s]) = 1
        /\ inboxes[c][1].payload.content # inboxes[s][1].payload.content
        /\ inboxes[s][1].to = s
        /\ tool.op = "send_message" /\ tool.status = "ok"

====
